---- MODULE Spec2Model ----
(***************************************************************************)
(* trashlytics: the event queue (Queue.ts), the dispatcher (Dispatcher.ts) *)
(* and the two trackers (Tracker.ts, built on Effect services, and the     *)
(* promise-based createTracker of tracker.ts).                             *)
(*                                                                         *)
(* The queue is an `effect` Queue.  Its operations are modelled by what    *)
(* the library does: offer hands the value to a waiting taker when the     *)
(* queue is empty, otherwise appends or applies the overflow strategy;     *)
(* takeBetween(min, max) is the library's takeRemainderLoop, which polls   *)
(* what is there and then takes the missing elements one at a time,        *)
(* keeping what it has collected in the calling fiber.                     *)
(*                                                                         *)
(* Events are identified by the number the id generator gave them: the    *)
(* k-th tracked event is k.                                                *)
(*                                                                         *)
(* Three specifications share the variables: SpecQueue is the queue with   *)
(* producers and one consumer, Spec is the tracker (track, the batch loop, *)
(* flush and shutdown around the queue, each dispatch settling in one      *)
(* step), and SpecDispatch is the dispatcher send by send, retries and     *)
(* interruption included.                                                  *)
(***************************************************************************)
EXTENDS Integers, Sequences, FiniteSets, TLC

MaxEvents == 3
MaxCapacity == 2
MaxBatch == 2
MaxRetry == 1

Strategies == {"bounded", "dropping", "sliding"}
Events == 1..MaxEvents

VARIABLES
    strategy,    \* queueStrategy of the resolved configuration
    capacity,    \* queueCapacity
    items,       \* the elements held by the queue, oldest first
    putters,     \* offers suspended by the back-pressure strategy, oldest first
    qShut,       \* the queue's shutdown flag
    tbPc,        \* the fiber inside takeBetween: "off", "wait", "resumed", "interrupted"
    tbMin,       \* elements takeBetween still has to collect
    tbMax,       \* elements takeBetween may still collect
    tbAcc,       \* elements takeBetween has collected so far
    tbVal,       \* the element an offer handed to the waiting taker
    nextId,      \* the id the generator returns next
    offerRes,    \* per event, how its offer ended: "none", "pending", "true", "false", "interrupted"
    got,         \* the events returned to the queue's consumer, in order
    takeRes      \* how the consumer's last take ended: "none", "ok", "wait", "interrupted"

qvars == <<strategy, capacity, items, putters, qShut, tbPc, tbMin, tbMax, tbAcc, tbVal,
           nextId, offerRes, got, takeRes>>

VARIABLES
    variant,       \* "effect": Tracker.ts with Dispatcher.ts; "promise": createTracker
    batchSize,     \* batchSize of the resolved configuration
    retryAttempts, \* retryAttempts of the resolved configuration
    runtime,       \* createTracker's runtime is not null (the Effect tracker always has one)
    isShutdown,    \* createTracker's isShutdown flag
    loopPc,        \* the batch loop: "none", "race", "dispatch", "cancelled"
    flushPc,       \* the caller inside flush(): "idle", "dispatch"
    flushRes,      \* how the last flush() ended: "none", "ok", "fail", "interrupted"
    shutPc,        \* the caller inside shutdown(): "idle", "interrupting", "dispatch", "done";
                   \* "interrupted" once a call made after "done" was interrupted
    disp,          \* per dispatch slot ("loop", "flush", "shutdown"), the dispatch it runs
    delivered,     \* per transport, the events of its successful sends, in order
    handled,       \* what the last completed dispatch reported: onError calls, outcome
    quiet,         \* no flush interval has elapsed, no flush() took events, no shutdown() ran
    trackErr,      \* the last track call threw the shut-down usage error
    evicted,       \* the events refused by dropping or evicted by sliding
    last           \* the queue operation its client ran last

tvars == <<variant, batchSize, retryAttempts, runtime, isShutdown, loopPc, flushPc, flushRes,
           shutPc, disp, delivered, handled, quiet, trackErr, evicted, last>>

VARIABLES
    globalMetadata, \* config.metadata, the tracker's static metadata
    middlewares,    \* the units handed to compose, in order; <<>> is the identity default
    call,           \* the last track or trackWith call: its operation, name and metadata
    invoked,        \* the positions of the units the last call's transform invoked, in order
    ev              \* per event id, the event after the middleware, or that it was dropped

mvars == <<globalMetadata, middlewares, call, invoked, ev>>

VARIABLES
    shut2Pc,        \* a shutdown() called while an earlier call is draining: "idle", "done"
    resolved,       \* the last configuration resolved: the function, its argument, its result
    applied,        \* the last middleware unit applied on its own: unit, input, output, fn calls
    send            \* one dispatchToTransport call: its transport, its attempts, what each
                    \* rejected with (raw) and was caught as (err), what the call rejects with

vars == <<qvars, tvars, mvars, shut2Pc, resolved, applied, send>>

Transports == {1, 2}
Slots == {"loop", "flush", "shutdown"}

\* event names; a filter unit drops the events of one name
Names == {"page_view", "internal"}

Min(a, b) == IF a < b THEN a ELSE b

Prefix(s, n) == SubSeq(s, 1, Min(n, Len(s)))

\* a take that returns the elements and leaves them in the queue
DropNothing(s, n) == s

Drop(s, n) == SubSeq(s, Min(n, Len(s)) + 1, Len(s))

Range(s) == {s[i] : i \in 1..Len(s)}

(***************************************************************************)
(* createQueue: the strategy names select the library queue; any other     *)
(* value falls back to dropping.                                           *)
(***************************************************************************)
createQueue(s) == IF s \in {"bounded", "sliding"} THEN s ELSE "dropping"

(***************************************************************************)
(* BackPressureStrategy.unsafeOnQueueEmptySpace: while the queue is not    *)
(* full, the oldest suspended offer's value enters the queue and that      *)
(* offer completes.  The other strategies have no putters.                 *)
(***************************************************************************)
RefillCount(q, p, cap) == Min(Len(p), cap - Len(q))

\* a refill that completes the suspended offers without enqueueing their values
RefillItemsLosing(q, p, cap) == q

RefillItems(q, p, cap) == q \o Prefix(p, RefillCount(q, p, cap))

RefillPutters(q, p, cap) == Drop(p, RefillCount(q, p, cap))

(***************************************************************************)
(* takeRemainderLoop(self, min, max, acc) run until it returns or          *)
(* suspends in take.  The result is the queue it leaves and either the     *)
(* chunk it returns (st = "done") or the state it waits in (st = "wait").  *)
(***************************************************************************)
RECURSIVE TakeRemainder(_, _, _, _, _, _)
TakeRemainder(q, p, cap, min, max, acc) ==
    IF max < min THEN [st |-> "done", q |-> q, p |-> p, acc |-> acc, min |-> 0, max |-> 0]
    ELSE
      LET bs == Prefix(q, max)
          q1 == Drop(q, max)
          q2 == RefillItems(q1, p, cap)
          p2 == RefillPutters(q1, p, cap)
          remaining == min - Len(bs)
      IN  IF remaining <= 0
          THEN [st |-> "done", q |-> q2, p |-> p2, acc |-> acc \o bs, min |-> 0, max |-> 0]
          ELSE IF q2 = <<>>
          THEN [st |-> "wait", q |-> q2, p |-> p2, acc |-> acc \o bs,
                min |-> remaining, max |-> max - Len(bs)]
          ELSE LET b == Head(q2)
                   q3 == RefillItems(Tail(q2), p2, cap)
                   p3 == RefillPutters(Tail(q2), p2, cap)
               IN  IF remaining = 1
                   THEN [st |-> "done", q |-> q3, p |-> p3, acc |-> (acc \o bs) \o <<b>>,
                         min |-> 0, max |-> 0]
                   ELSE TakeRemainder(q3, p3, cap, remaining - 1, max - Len(bs) - 1,
                                      (acc \o bs) \o <<b>>)

\* the offers completed by moving p's head elements into the queue
Completed(p, p2) == Range(p) \ Range(p2)

(***************************************************************************)
(* Queue.offer, as the library runs it.  res is what Queue.offer yields:   *)
(* "true", "false" (dropping strategy, queue full), "pending" (suspended   *)
(* by back-pressure) or "interrupted" (queue shut down).                   *)
(***************************************************************************)
\* a sliding queue that keeps the oldest element and discards the new one
QueueOfferKeepOldest(e) ==
    IF qShut THEN [res |-> "interrupted", q |-> items, p |-> putters, handed |-> FALSE]
    ELSE IF items = <<>> /\ tbPc = "wait"
    THEN [res |-> "true", q |-> items, p |-> putters, handed |-> TRUE]
    ELSE IF Len(items) < capacity
    THEN [res |-> "true", q |-> Append(items, e), p |-> putters, handed |-> FALSE]
    ELSE IF createQueue(strategy) = "dropping"
    THEN [res |-> "false", q |-> items, p |-> putters, handed |-> FALSE]
    ELSE IF createQueue(strategy) = "sliding"
    THEN [res |-> "true", q |-> items, p |-> putters, handed |-> FALSE]
    ELSE [res |-> "pending", q |-> items, p |-> Append(putters, e), handed |-> FALSE]

\* an offer that enqueues whatever the size of the queue
QueueOfferUnbounded(e) ==
    IF qShut THEN [res |-> "interrupted", q |-> items, p |-> putters, handed |-> FALSE]
    ELSE IF items = <<>> /\ tbPc = "wait"
    THEN [res |-> "true", q |-> items, p |-> putters, handed |-> TRUE]
    ELSE [res |-> "true", q |-> Append(items, e), p |-> putters, handed |-> FALSE]

QueueOffer(e) ==
    IF qShut THEN [res |-> "interrupted", q |-> items, p |-> putters, handed |-> FALSE]
    ELSE IF items = <<>> /\ tbPc = "wait"
    THEN [res |-> "true", q |-> items, p |-> putters, handed |-> TRUE]
    ELSE IF Len(items) < capacity
    THEN [res |-> "true", q |-> Append(items, e), p |-> putters, handed |-> FALSE]
    ELSE IF createQueue(strategy) = "dropping"
    THEN [res |-> "false", q |-> items, p |-> putters, handed |-> FALSE]
    ELSE IF createQueue(strategy) = "sliding"
    THEN [res |-> "true", q |-> Append(Tail(items), e), p |-> putters, handed |-> FALSE]
    ELSE [res |-> "pending", q |-> items, p |-> Append(putters, e), handed |-> FALSE]

(***************************************************************************)
(* make.offer of Queue.ts: Queue.offer, then map(() => true) and           *)
(* catchAll(() => false).  map replaces whatever Queue.offer yielded by    *)
(* true; Queue.offer has no failure for catchAll to catch, and an          *)
(* interruption is not a failure.                                          *)
(***************************************************************************)
WrapOffer(res) == IF res \in {"true", "false"} THEN "true" ELSE res


(***************************************************************************)
(* The state a dispatch slot is in before its first dispatch.              *)
(***************************************************************************)
NoDispatch ==
    [st       |-> "idle",
     batch    |-> <<>>,
     ts       |-> [t \in Transports |-> "none"],
     attempts |-> [t \in Transports |-> 0],
     sent     |-> [t \in Transports |-> <<>>],
     err      |-> [t \in Transports |-> "none"]]

\* no dispatch has completed yet
NoneHandled == [reported |-> [t \in Transports |-> 0], outcome |-> "none"]

\* the tracker around the queue is left alone
TrackerUnchanged ==
    UNCHANGED <<variant, batchSize, retryAttempts, runtime, isShutdown, loopPc, flushPc,
                flushRes, shutPc, disp, delivered, handled, quiet, trackErr, mvars, shut2Pc,
                resolved, applied, send>>

(***************************************************************************)
(* Metadata is a record of keys to values.  { ...m1, ...m2 } has the keys  *)
(* of both, and the value of m2 wherever m2 has the key.                   *)
(***************************************************************************)
NoMetadata == [k \in {} |-> 0]

\* a spread in which the first operand's value survives a collision
SpreadFirstWins(m1, m2) ==
    [k \in DOMAIN m1 \cup DOMAIN m2 |-> IF k \in DOMAIN m1 THEN m1[k] ELSE m2[k]]

Spread(m1, m2) ==
    [k \in DOMAIN m1 \cup DOMAIN m2 |-> IF k \in DOMAIN m2 THEN m2[k] ELSE m1[k]]

\* the metadata a configuration or a trackWith call may carry
StaticChoices == {[a |-> 0, b |-> 2]}
CallChoices == {[a |-> 1]}

(***************************************************************************)
(* An event as the middleware sees it (its id is the index it is kept      *)
(* under), and the absent event: null in middleware.ts, Option.none in     *)
(* Middleware.ts.                                                          *)
(***************************************************************************)
None == [some |-> FALSE, name |-> "", metadata |-> NoMetadata]

\* createEvent / makeEvent with the metadata the tracker passes: globalMetadata
\* alone for track, globalMetadata overlaid with the call's metadata for trackWith
createEvent(name, extraMetadata) ==
    [some |-> TRUE, name |-> name, metadata |-> Spread(globalMetadata, extraMetadata)]

(***************************************************************************)
(* Middleware units: filter(e => e.name !== drops), addMetadata(md), tap.  *)
(***************************************************************************)
filter(drops) == [kind |-> "filter", drops |-> drops, md |-> NoMetadata]
addMetadata(md) == [kind |-> "addMetadata", drops |-> "", md |-> md]
tap == [kind |-> "tap", drops |-> "", md |-> NoMetadata]

Units == {filter("internal"), addMetadata([a |-> 2]), addMetadata([a |-> 3, c |-> 1]), tap}

identity(e) == e

\* addMetadataFrom(e => ({ eventName: e.name })), as in the test, and its function
addMetadataFrom == [kind |-> "addMetadataFrom", drops |-> "", md |-> NoMetadata]
eventName(e) == [eventName |-> e.name]

\* units that replace the metadata instead of merging into it
TransformReplacing(u, e) ==
    IF u.kind = "filter" THEN (IF e.name # u.drops THEN e ELSE None)
    ELSE IF u.kind = "addMetadata" THEN [e EXCEPT !.metadata = u.md]
    ELSE IF u.kind = "addMetadataFrom" THEN [e EXCEPT !.metadata = eventName(e)]
    ELSE e

\* unit u applied to the event e
Transform(u, e) ==
    IF u.kind = "filter" THEN (IF e.name # u.drops THEN e ELSE None)
    ELSE IF u.kind = "addMetadata" THEN [e EXCEPT !.metadata = Spread(e.metadata, u.md)]
    ELSE IF u.kind = "addMetadataFrom"
    THEN [e EXCEPT !.metadata = Spread(e.metadata, eventName(e))]
    ELSE e

\* a tap that does not call its function
FnCallsNone(u, e) == 0

\* the number of calls unit u makes of the function it was built with (filter's
\* predicate, addMetadataFrom's and tap's fn) when it is applied to e
FnCalls(u, e) == IF u.kind \in {"filter", "addMetadataFrom", "tap"} THEN 1 ELSE 0

\* a composition that hands a dropped event on to the units that follow
RECURSIVE composeLoopOn(_, _, _, _)
composeLoopOn(ms, i, current, inv) ==
    IF i > Len(ms) THEN [out |-> current, invoked |-> inv]
    ELSE composeLoopOn(ms, i + 1,
                       Transform(ms[i], [current EXCEPT !.some = TRUE]), Append(inv, i))

(***************************************************************************)
(* compose(...middlewares): the units run from the first to the last, each *)
(* on the result of the one before; once the event is absent no further    *)
(* unit runs.  The result is the event that comes out and the positions of *)
(* the units that ran.                                                     *)
(***************************************************************************)
RECURSIVE composeLoop(_, _, _, _)
composeLoop(ms, i, current, inv) ==
    IF i > Len(ms) THEN [out |-> current, invoked |-> inv]
    ELSE IF ~current.some THEN [out |-> None, invoked |-> inv]
    ELSE composeLoop(ms, i + 1, Transform(ms[i], current), Append(inv, i))

Reverse(s) == [i \in 1..Len(s) |-> s[Len(s) + 1 - i]]

\* a composition that applies the units from the last to the first
composeRightToLeft(ms, e) ==
    IF Len(ms) = 0 THEN [out |-> identity(e), invoked |-> <<>>]
    ELSE LET r == composeLoop(Reverse(ms), 1, e, <<>>)
         IN  [out |-> r.out, invoked |-> [i \in 1..Len(r.invoked) |-> Len(ms) + 1 - r.invoked[i]]]

compose(ms, e) ==
    IF Len(ms) = 0 THEN [out |-> identity(e), invoked |-> <<>>]
    ELSE composeLoop(ms, 1, e, <<>>)

\* no call yet, and an id no call has taken yet
NoCall == [op |-> "none", name |-> "", metadata |-> NoMetadata]
NotTracked == [st |-> "none", name |-> "", metadata |-> NoMetadata]

(***************************************************************************)
(* Configuration.  A caller's override of a numeric option is absent, the  *)
(* explicit value undefined, or a number.  Config.ts resolve and the       *)
(* non-generic resolveConfig spread the caller's object over the defaults; *)
(* the generic resolveConfig takes each option with ??.                    *)
(***************************************************************************)
Absent == [kind |-> "absent", n |-> 0]
Undefined == [kind |-> "undefined", n |-> 0]
Num(k) == [kind |-> "num", n |-> k]

Overrides == {Absent, Undefined} \cup {Num(k) : k \in (0 - 1)..MaxBatch}
Callers == [batchSize : Overrides, queueCapacity : Overrides]

defaults == [batchSize |-> Num(10), queueCapacity |-> Num(1000)]

\* {...defaults, ...config}: an own property of config wins, the value undefined too
SpreadOption(d, v) == IF v.kind = "absent" THEN d ELSE v

\* config.option ?? defaults.option
NullishOption(d, v) == IF v.kind \in {"absent", "undefined"} THEN d ELSE v

resolve(config) == [k \in DOMAIN config |-> SpreadOption(defaults[k], config[k])]
resolveConfig(config) == [k \in DOMAIN config |-> NullishOption(defaults[k], config[k])]

\* no unit applied on its own yet
NoUnit == [kind |-> "none", drops |-> "", md |-> NoMetadata]
NotApplied == [unit |-> NoUnit, input |-> None, out |-> None, calls |-> 0]

(***************************************************************************)
(* What a transport's send can reject with: a TransportError, which names  *)
(* a transport and says whether it is retryable, or any other value, which *)
(* here is an Error that may carry a retryable property of its own.        *)
(***************************************************************************)
NoError == [type |-> "none", transport |-> 0, retryable |-> FALSE, reason |-> ""]

TransportErrors ==
    [type : {"TransportError"}, transport : Transports, retryable : BOOLEAN,
     reason : {"down", "timeout"}]

OtherErrors == [type : {"Error"}, transport : {0}, retryable : BOOLEAN, reason : {"boom"}]

Rejections == TransportErrors \cup OtherErrors

\* String(error)
String(error) == IF error.type = "Error" THEN "Error: boom" ELSE error.reason

\* no dispatchToTransport call made yet
NotSent == [st |-> "idle", t |-> 0, attempts |-> 0, raw |-> <<>>, err |-> <<>>,
            rejected |-> NoError]

Resolvers == {"resolve", "resolveConfig", "resolveConfigPlain"}
NotResolved == [by |-> "none", config |-> defaults, out |-> defaults]

\* the tracker's default: no static metadata, the identity middleware
NoMiddleware ==
    /\ globalMetadata = NoMetadata
    /\ middlewares = <<>>
    /\ call = NoCall
    /\ invoked = <<>>
    /\ ev = [e \in Events |-> NotTracked]

(***************************************************************************)
(* The queue on its own: Queue.ts make(capacity, strategy) used by         *)
(* producers that offer events and one consumer that takes them.           *)
(***************************************************************************)
QInit ==
    /\ strategy \in Strategies
    /\ capacity \in 1..MaxCapacity
    /\ items = <<>>
    /\ putters = <<>>
    /\ qShut = FALSE
    /\ tbPc = "off"
    /\ tbMin = 0
    /\ tbMax = 0
    /\ tbAcc = <<>>
    /\ tbVal = 0
    /\ nextId = 1
    /\ offerRes = [e \in Events |-> "none"]
    /\ got = <<>>
    /\ takeRes = "none"
    /\ variant = "effect"
    /\ batchSize = 1
    /\ retryAttempts = 0
    /\ runtime = FALSE
    /\ isShutdown = FALSE
    /\ loopPc = "none"
    /\ flushPc = "idle"
    /\ flushRes = "none"
    /\ shutPc = "idle"
    /\ shut2Pc = "idle"
    /\ resolved = NotResolved
    /\ applied = NotApplied
    /\ send = NotSent
    /\ disp = [d \in Slots |-> NoDispatch]
    /\ delivered = [t \in Transports |-> <<>>]
    /\ handled = NoneHandled
    /\ quiet = TRUE
    /\ trackErr = FALSE
    /\ evicted = {}
    /\ last = "init"
    /\ NoMiddleware

\* the offer results after the putters of p that left it completed with true
PuttersDone(res, p, p2) ==
    [e \in Events |-> IF e \in Completed(p, p2) THEN "true" ELSE res[e]]

\* the events an offer of e loses: e itself when refused, the head when evicted
Loses(e, r) ==
    IF r.res = "false" THEN {e}
    ELSE IF r.res = "true" /\ ~r.handed /\ Len(items) = capacity /\ capacity > 0
    THEN {Head(items)} ELSE {}

\* make.offer: the producer offers the next event
QOffer ==
    /\ nextId <= MaxEvents
    /\ LET e == nextId
           r == QueueOffer(e)
       IN  /\ items' = r.q
           /\ putters' = r.p
           /\ offerRes' = [offerRes EXCEPT ![e] = WrapOffer(r.res)]
           /\ tbPc' = IF r.handed THEN "resumed" ELSE tbPc
           /\ tbVal' = IF r.handed THEN e ELSE tbVal
           /\ evicted' = evicted \cup Loses(e, r)
    /\ nextId' = nextId + 1
    /\ last' = "offer"
    /\ UNCHANGED <<strategy, capacity, qShut, tbMin, tbMax, tbAcc, got, takeRes>>
    /\ TrackerUnchanged

\* takeAll and takeUpTo(n): poll, then let suspended offers use the space
QTakeUpTo(n) ==
    /\ tbPc \in {"off", "interrupted"}
    /\ IF qShut
       THEN /\ takeRes' = "interrupted"
            /\ UNCHANGED <<items, putters, offerRes, got>>
       ELSE LET bs == Prefix(items, n)
                q1 == Drop(items, n)
            IN  /\ items' = RefillItems(q1, putters, capacity)
                /\ putters' = RefillPutters(q1, putters, capacity)
                /\ offerRes' = PuttersDone(offerRes, putters, putters')
                /\ got' = got \o bs
                /\ takeRes' = "ok"
    /\ tbPc' = "off"
    /\ UNCHANGED <<strategy, capacity, qShut, tbMin, tbMax, tbAcc, tbVal, nextId>>

QTakeAll ==
    /\ QTakeUpTo(Len(items))
    /\ last' = "takeAll"
    /\ TrackerUnchanged
    /\ UNCHANGED evicted

QTake ==
    /\ \E n \in 0..MaxBatch : QTakeUpTo(n)
    /\ last' = "takeUpTo"
    /\ TrackerUnchanged
    /\ UNCHANGED evicted

\* the consumer's takeBetween, from its state r after one run of the loop
QAfterTake(r) ==
    /\ items' = r.q
    /\ putters' = r.p
    /\ offerRes' = PuttersDone(offerRes, putters, r.p)
    /\ tbMin' = r.min
    /\ tbMax' = r.max
    /\ IF r.st = "done"
       THEN /\ got' = got \o r.acc
            /\ tbAcc' = <<>>
            /\ tbPc' = "off"
            /\ takeRes' = "ok"
       ELSE /\ got' = got
            /\ tbAcc' = r.acc
            /\ tbPc' = "wait"
            /\ takeRes' = "wait"

\* takeBetween(min, max): every take of the loop is interrupted once the queue is shut down
QTakeBetween ==
    /\ tbPc \in {"off", "interrupted"}
    /\ \E min \in 0..MaxBatch, max \in 0..MaxBatch :
         IF qShut /\ min <= max
         THEN /\ takeRes' = "interrupted"
              /\ tbPc' = "interrupted"
              /\ UNCHANGED <<items, putters, offerRes, got, tbMin, tbMax, tbAcc>>
         ELSE QAfterTake(TakeRemainder(items, putters, capacity, min, max, <<>>))
    /\ last' = "takeBetween"
    /\ UNCHANGED <<strategy, capacity, qShut, tbVal, nextId>>
    /\ TrackerUnchanged
    /\ UNCHANGED evicted

\* the fiber suspended in take runs again with the element an offer handed it
QTakerResume ==
    /\ tbPc = "resumed"
    /\ IF tbMin = 1
       THEN QAfterTake([st |-> "done", q |-> items, p |-> putters,
                        acc |-> Append(tbAcc, tbVal), min |-> 0, max |-> 0])
       ELSE IF qShut
       THEN /\ takeRes' = "interrupted"
            /\ tbPc' = "interrupted"
            /\ tbAcc' = <<>>
            /\ UNCHANGED <<items, putters, offerRes, got, tbMin, tbMax>>
       ELSE QAfterTake(TakeRemainder(items, putters, capacity, tbMin - 1, tbMax - 1,
                                     Append(tbAcc, tbVal)))
    /\ last' = "resume"
    /\ UNCHANGED <<strategy, capacity, qShut, tbVal, nextId>>
    /\ TrackerUnchanged
    /\ UNCHANGED evicted

(***************************************************************************)
(* Queue.shutdown: sets the flag and interrupts the waiting takers and     *)
(* the suspended offers; the elements stay in the queue.                   *)
(***************************************************************************)
ShutPutters(res, p) ==
    [e \in Events |-> IF e \in Range(p) THEN "interrupted" ELSE res[e]]

QShutdown ==
    /\ qShut' = TRUE
    /\ putters' = <<>>
    /\ offerRes' = ShutPutters(offerRes, putters)
    /\ tbPc' = IF tbPc = "wait" THEN "interrupted" ELSE tbPc
    /\ tbAcc' = IF tbPc = "wait" THEN <<>> ELSE tbAcc
    /\ takeRes' = IF tbPc = "wait" THEN "interrupted" ELSE takeRes
    /\ last' = "shutdown"
    /\ UNCHANGED <<strategy, capacity, items, tbMin, tbMax, tbVal, nextId, got>>
    /\ TrackerUnchanged
    /\ UNCHANGED evicted

QNext == QOffer \/ QTakeAll \/ QTake \/ QTakeBetween \/ QTakerResume \/ QShutdown

SpecQueue == QInit /\ [][QNext]_vars


(***************************************************************************)
(* The tracker.  Init is the state after Tracker.make (variant "effect":   *)
(* the queue exists and the batch loop is forked) or after createTracker   *)
(* (variant "promise": no runtime until the first track call).  At this    *)
(* level a dispatch settles in one step (Settle), whatever the number of   *)
(* retries, so retryAttempts takes one value; SpecDispatch varies it.      *)
(***************************************************************************)
Init ==
    /\ variant \in {"effect", "promise"}
    /\ strategy \in Strategies
    /\ capacity \in 1..MaxCapacity
    /\ batchSize \in 1..MaxBatch
    /\ retryAttempts = MaxRetry
    /\ items = <<>>
    /\ putters = <<>>
    /\ qShut = FALSE
    /\ tbPc = IF variant = "effect" THEN "start" ELSE "off"
    /\ tbMin = 0
    /\ tbMax = 0
    /\ tbAcc = <<>>
    /\ tbVal = 0
    /\ nextId = 1
    /\ offerRes = [e \in Events |-> "none"]
    /\ got = <<>>
    /\ takeRes = "none"
    /\ runtime = (variant = "effect")
    /\ isShutdown = FALSE
    /\ loopPc = IF variant = "effect" THEN "race" ELSE "none"
    /\ flushPc = "idle"
    /\ flushRes = "none"
    /\ shutPc = "idle"
    /\ shut2Pc = "idle"
    /\ resolved = NotResolved
    /\ applied = NotApplied
    /\ send = NotSent
    /\ disp = [d \in Slots |-> NoDispatch]
    /\ delivered = [t \in Transports |-> <<>>]
    /\ handled = NoneHandled
    /\ quiet = TRUE
    /\ trackErr = FALSE
    /\ evicted = {}
    /\ last = "init"
    /\ NoMiddleware

\* the configuration never changes, and the tracker has no separate queue consumer
Config == UNCHANGED <<variant, strategy, capacity, batchSize, retryAttempts, got, takeRes, last,
                      globalMetadata, middlewares, shut2Pc, resolved, applied, send>>

Fixed == Config /\ UNCHANGED <<call, invoked, ev>>

(***************************************************************************)
(* track / trackWith.  createTracker: ensureRuntime throws once isShutdown *)
(* is set, and creates the runtime (queue and forked loop) on the first    *)
(* call; the event gets the next id and is offered by a forked fiber.      *)
(* Tracker.ts: createEvent, then queue.offer(e).                           *)
(***************************************************************************)
TrackAfterShutdown ==
    /\ variant = "promise"
    /\ isShutdown
    /\ ~trackErr
    /\ trackErr' = TRUE
    /\ Fixed
    /\ UNCHANGED <<items, putters, qShut, tbPc, tbMin, tbMax, tbAcc, tbVal, nextId, offerRes,
                   runtime, isShutdown, loopPc, flushPc, flushRes, shutPc, disp, delivered,
                   handled, quiet, evicted>>

(***************************************************************************)
(* What a track call on tracker v yields to its caller when the offer of   *)
(* its event ended with res.  createTracker forks the offer                *)
(* (Effect.runFork) and returns; Tracker.ts returns the effect of          *)
(* queue.offer(e) as void, so its caller waits while the offer is          *)
(* suspended and is interrupted when the offer is.                         *)
(***************************************************************************)
TrackOutcome(v, res) ==
    IF v = "promise" THEN "void"
    ELSE IF res = "pending" THEN "suspended"
    ELSE IF res = "interrupted" THEN "interrupted"
    ELSE "void"

\* track(name, payload) for op = "track", trackWith(name, payload, metadata) otherwise
\* a generator that returns every id twice
generateIdTwice(n) == (n + 1) \div 2

\* the id generator, here a counter as in the test's `custom-id-${++counter}`: its
\* n-th call returns the n-th id
generateId(n) == n

\* a track call that starts a batch loop whether or not a runtime exists
ensureRuntimeAgain(rt, pc) == "race"

\* ensureRuntime: the first track call creates the runtime, whose loop starts in its
\* race; a later call finds the runtime and leaves the loop where it is
ensureRuntime(rt, pc) == IF rt THEN pc ELSE "race"

TrackEvent(op, name, metadata) ==
    /\ nextId <= MaxEvents
    /\ ~(variant = "promise" /\ isShutdown)
    /\ LET e == generateId(nextId)
           event == createEvent(name, IF op = "track" THEN NoMetadata ELSE metadata)
           transformed == compose(middlewares, event)
           r == QueueOffer(e)
       IN  /\ call' = [op |-> op, name |-> name, metadata |-> metadata]
           /\ invoked' = transformed.invoked
           /\ ev' = [ev EXCEPT ![e] =
                       [st       |-> IF transformed.out.some THEN "offered" ELSE "dropped",
                        name     |-> transformed.out.name,
                        metadata |-> transformed.out.metadata]]
           /\ IF transformed.out.some
              THEN /\ items' = r.q
                   /\ putters' = r.p
                   /\ offerRes' = [offerRes EXCEPT ![e] =
                                     IF variant = "effect" THEN WrapOffer(r.res) ELSE r.res]
                   /\ tbPc' = IF r.handed THEN "resumed" ELSE IF runtime THEN tbPc ELSE "start"
                   /\ tbVal' = IF r.handed THEN e ELSE tbVal
                   /\ evicted' = evicted \cup Loses(e, r)
              ELSE /\ tbPc' = IF runtime THEN tbPc ELSE "start"
                   /\ UNCHANGED <<items, putters, offerRes, tbVal, evicted>>
    /\ nextId' = nextId + 1
    /\ runtime' = TRUE
    /\ loopPc' = ensureRuntime(runtime, loopPc)
    /\ trackErr' = FALSE
    /\ Config
    /\ UNCHANGED <<qShut, tbMin, tbMax, tbAcc, isShutdown, flushPc, flushRes, shutPc, disp,
                   delivered, handled, quiet>>

Track == TrackEvent("track", "page_view", NoMetadata)

TrackWith(name, metadata) == TrackEvent("trackWith", name, metadata)

(***************************************************************************)
(* dispatch(events): the first send to every transport starts at once.     *)
(***************************************************************************)
\* an attempt that leaves out the first event of the batch
sendRest(events) == Tail(events)

\* what transport.send is handed in an attempt of a dispatch of events, the first
\* and every retry alike: the events of the dispatch
sendToTransport(events) == events

StartDispatch(batch) ==
    [st       |-> "run",
     batch    |-> batch,
     ts       |-> [t \in Transports |-> "inflight"],
     attempts |-> [t \in Transports |-> 1],
     sent     |-> [t \in Transports |-> <<sendToTransport(batch)>>],
     err      |-> [t \in Transports |-> "none"]]

(***************************************************************************)
(* The batch loop.  One iteration races takeBetween(batchSize, batchSize)  *)
(* against sleep(flushInterval) followed by takeUpTo(batchSize); the       *)
(* first to finish decides the iteration and the other fiber is            *)
(* interrupted, with whatever it holds.  A non-empty result is dispatched  *)
(* and the loop waits for that dispatch; an empty one starts the next      *)
(* iteration.                                                              *)
(***************************************************************************)
\* a race that forgets to dispatch what it yielded
LoopWinDiscarding(batch) ==
    /\ tbAcc' = <<>>
    /\ tbMin' = 0
    /\ tbMax' = 0
    /\ loopPc' = "race"
    /\ tbPc' = "start"
    /\ UNCHANGED disp

\* a race whose result is dispatched without a look at its length, by a dispatcher
\* that does not look either
LoopWinUnguarded(batch) ==
    /\ tbAcc' = <<>>
    /\ tbMin' = 0
    /\ tbMax' = 0
    /\ loopPc' = "dispatch"
    /\ tbPc' = "off"
    /\ disp' = [disp EXCEPT !["loop"] = StartDispatch(batch)]

\* a race whose result is dispatched in a fiber of its own, the loop going on at once
LoopWinForking(batch) ==
    /\ tbAcc' = <<>>
    /\ tbMin' = 0
    /\ tbMax' = 0
    /\ loopPc' = "race"
    /\ tbPc' = "start"
    /\ IF batch = <<>>
       THEN UNCHANGED disp
       ELSE disp' = [disp EXCEPT !["loop"] = StartDispatch(batch)]

LoopWin(batch) ==
    /\ tbAcc' = <<>>
    /\ tbMin' = 0
    /\ tbMax' = 0
    /\ IF batch = <<>>
       THEN /\ loopPc' = "race"
            /\ tbPc' = "start"
            /\ UNCHANGED disp
       ELSE /\ loopPc' = "dispatch"
            /\ tbPc' = "off"
            /\ disp' = [disp EXCEPT !["loop"] = StartDispatch(batch)]

LoopAfterTake(r) ==
    /\ items' = r.q
    /\ putters' = r.p
    /\ offerRes' = PuttersDone(offerRes, putters, r.p)
    /\ IF r.st = "done"
       THEN LoopWin(r.acc)
       ELSE /\ tbPc' = "wait"
            /\ tbAcc' = r.acc
            /\ tbMin' = r.min
            /\ tbMax' = r.max
            /\ UNCHANGED <<loopPc, disp>>

\* the takeBetween fiber runs for the first time in this iteration
TBStart ==
    /\ loopPc = "race"
    /\ tbPc = "start"
    /\ LoopAfterTake(TakeRemainder(items, putters, capacity, batchSize, batchSize, <<>>))
    /\ Fixed
    /\ UNCHANGED <<qShut, tbVal, nextId, runtime, isShutdown, flushPc, flushRes, shutPc,
                   delivered, handled, quiet, trackErr, evicted>>

\* the takeBetween fiber runs again with the element an offer handed to its taker
TBResume ==
    /\ loopPc = "race"
    /\ tbPc = "resumed"
    /\ IF tbMin = 1
       THEN LoopAfterTake([st |-> "done", q |-> items, p |-> putters,
                           acc |-> Append(tbAcc, tbVal), min |-> 0, max |-> 0])
       ELSE LoopAfterTake(TakeRemainder(items, putters, capacity, tbMin - 1, tbMax - 1,
                                        Append(tbAcc, tbVal)))
    /\ Fixed
    /\ UNCHANGED <<qShut, tbVal, nextId, runtime, isShutdown, flushPc, flushRes, shutPc,
                   delivered, handled, quiet, trackErr, evicted>>

\* the flush interval elapses: takeUpTo(batchSize) decides the race
TimerFire ==
    /\ loopPc = "race"
    /\ LET bs == Prefix(items, batchSize)
           q1 == Drop(items, batchSize)
       IN  /\ items' = RefillItems(q1, putters, capacity)
           /\ putters' = RefillPutters(q1, putters, capacity)
           /\ offerRes' = PuttersDone(offerRes, putters, putters')
           /\ LoopWin(bs)
    /\ quiet' = FALSE
    /\ Fixed
    /\ UNCHANGED <<qShut, tbVal, nextId, runtime, isShutdown, flushPc, flushRes, shutPc,
                   delivered, handled, trackErr, evicted>>

(***************************************************************************)
(* One transport inside one dispatch: sendToTransport / dispatchToTransport*)
(* with Effect.retry({schedule: exponential.jittered.compose(recurs(n)),   *)
(* while: err => err.retryable}).  A send succeeds, or fails with a        *)
(* TransportError that is retryable or not.                                *)
(***************************************************************************)
\* a policy that stops one retry early
RetryAgainShort(kind, attempts, n) == kind = "retryable" /\ attempts < n

\* the retry policy: a retryable failure is retried while recurs(n) allows, that is
\* while fewer than n retries have been made
RetryAgain(kind, attempts, n) == kind = "retryable" /\ attempts - 1 < n

DispatchUnchanged ==
    UNCHANGED <<items, putters, qShut, tbPc, tbMin, tbMax, tbAcc, tbVal, nextId, offerRes,
                runtime, isShutdown, loopPc, flushPc, flushRes, shutPc, handled, quiet,
                trackErr, evicted>>

\* the send succeeds: the transport has the batch
SendOk(d, t) ==
    /\ disp[d].st = "run"
    /\ disp[d].ts[t] = "inflight"
    /\ disp' = [disp EXCEPT ![d].ts[t] = "ok"]
    /\ delivered' = [delivered EXCEPT
                        ![t] = delivered[t] \o disp[d].sent[t][Len(disp[d].sent[t])]]
    /\ Fixed
    /\ DispatchUnchanged

\* the send fails and the policy allows a retry: after the backoff delay the
\* same batch is sent again
SendRetry(d, t) ==
    /\ disp[d].st = "run"
    /\ disp[d].ts[t] = "inflight"
    /\ RetryAgain("retryable", disp[d].attempts[t], retryAttempts)
    /\ disp' = [disp EXCEPT ![d].attempts[t] = disp[d].attempts[t] + 1,
                            ![d].sent[t] = Append(disp[d].sent[t],
                                                  sendToTransport(disp[d].batch)),
                            ![d].err[t] = "retryable"]
    /\ UNCHANGED delivered
    /\ Fixed
    /\ DispatchUnchanged

\* a final failure that cancels the sends still in flight to the other transports
SendFailCancelling(d, t) ==
    /\ disp[d].st = "run"
    /\ disp[d].ts[t] = "inflight"
    /\ \E kind \in {"retryable", "fatal"} :
         /\ ~RetryAgain(kind, disp[d].attempts[t], retryAttempts)
         /\ disp' = [disp EXCEPT ![d].ts = [u \in Transports |->
                                              IF u = t \/ disp[d].ts[u] = "inflight"
                                              THEN "failed" ELSE disp[d].ts[u]],
                                 ![d].err[t] = kind]
    /\ UNCHANGED delivered
    /\ Fixed
    /\ DispatchUnchanged

\* the send fails for good: not retryable, or retryable with the retries used up
SendFail(d, t) ==
    /\ disp[d].st = "run"
    /\ disp[d].ts[t] = "inflight"
    /\ \E kind \in {"retryable", "fatal"} :
         /\ ~RetryAgain(kind, disp[d].attempts[t], retryAttempts)
         /\ disp' = [disp EXCEPT ![d].ts[t] = "failed", ![d].err[t] = kind]
    /\ UNCHANGED delivered
    /\ Fixed
    /\ DispatchUnchanged

(***************************************************************************)
(* handleResults (Dispatcher.ts) and the failure loop of createRuntime's   *)
(* dispatch, run once every transport has settled: onError once for every  *)
(* failed transport.  The Dispatcher fails when every transport failed;    *)
(* createRuntime's dispatch always resolves.                               *)
(***************************************************************************)
Failures(r) == {t \in Transports : r.ts[t] = "failed"}

\* a dispatch that fails as soon as one transport failed
DispatchOutcomeAny(v, r) ==
    IF v = "effect" /\ Failures(r) # {} THEN "fail" ELSE "ok"

\* a dispatch of either tracker that fails when every transport failed
DispatchOutcomeAllFailed(v, r) ==
    IF Failures(r) = Transports THEN "fail" ELSE "ok"

DispatchOutcome(v, r) ==
    IF v = "effect" /\ Failures(r) = Transports THEN "fail" ELSE "ok"

\* a failure loop that calls onError once for every attempt the transport made
HandleResultsPerAttempt(v, r) ==
    [reported |-> [t \in Transports |-> IF t \in Failures(r) THEN r.attempts[t] ELSE 0],
     outcome  |-> DispatchOutcome(v, r)]

HandleResults(v, r) ==
    [reported |-> [t \in Transports |-> IF t \in Failures(r) THEN 1 ELSE 0],
     outcome  |-> DispatchOutcome(v, r)]

\* shutdown's last step: createRuntime closes its scope and createTracker drops the
\* runtime; Tracker.ts shuts the queue down
CloseShutdown ==
    /\ shutPc' = "done"
    /\ IF variant = "promise"
       THEN /\ runtime' = FALSE
            /\ UNCHANGED <<qShut, putters, offerRes>>
       ELSE /\ qShut' = TRUE
            /\ putters' = <<>>
            /\ offerRes' = ShutPutters(offerRes, putters)
            /\ UNCHANGED runtime

\* a dispatch that goes on as soon as its first transport has settled
SettledFirst(r) == \E t \in Transports : r.ts[t] \in {"ok", "failed"}

Settled(r) == \A t \in Transports : r.ts[t] \in {"ok", "failed"}

\* a loop that lets the failure of its dispatch end it
LoopDiesOnFailure(outcome) == IF outcome = "fail" THEN "failed" ELSE "race"

\* the loop after its dispatch: catchAll(() => Effect.void) turns a failed dispatch
\* into a completed one, and Effect.forever starts the next iteration
LoopAfterDispatch(outcome) == IF outcome \in {"ok", "fail"} THEN "race" ELSE "failed"

\* the dispatch of slot d ends with the settled results r, and its caller goes on
FinishWith(d, r) ==
    /\ disp' = [disp EXCEPT ![d] = NoDispatch]
    /\ handled' = HandleResults(variant, r)
    /\ IF d = "loop"
       THEN /\ loopPc' = IF loopPc = "dispatch"
                        THEN LoopAfterDispatch(DispatchOutcome(variant, r))
                        ELSE loopPc
            /\ tbPc' = IF loopPc = "dispatch" THEN "start" ELSE tbPc
            /\ UNCHANGED <<flushPc, flushRes, shutPc, runtime, qShut, putters, offerRes>>
       ELSE IF d = "flush"
       THEN /\ flushPc' = "idle"
            /\ flushRes' = DispatchOutcome(variant, r)
            /\ UNCHANGED <<loopPc, tbPc, shutPc, runtime, qShut, putters, offerRes>>
       ELSE /\ CloseShutdown
            /\ UNCHANGED <<loopPc, tbPc, flushPc, flushRes>>
    /\ Fixed
    /\ UNCHANGED <<items, tbMin, tbMax, tbAcc, tbVal, nextId, isShutdown, quiet, trackErr,
                   evicted>>

\* every transport has settled: the results are handled
Finish(d) ==
    /\ disp[d].st = "run"
    /\ Settled(disp[d])
    /\ FinishWith(d, disp[d])
    /\ UNCHANGED delivered

\* the batch reaches the transports of S
Deliver(S, batch) ==
    [t \in Transports |-> IF t \in S THEN delivered[t] \o batch ELSE delivered[t]]

(***************************************************************************)
(* A dispatch of the tracker from its start to its end in one step: every  *)
(* transport's sends, retries included, end in success or in final         *)
(* failure, and the results are handled.                                   *)
(***************************************************************************)
Settle(d) ==
    /\ disp[d].st = "run"
    /\ \E ts \in [Transports -> {"ok", "failed"}] :
         /\ delivered' = Deliver({t \in Transports : ts[t] = "ok"}, disp[d].batch)
         /\ FinishWith(d, [disp[d] EXCEPT !.ts = ts])

(***************************************************************************)
(* flush().  createTracker returns at once without a runtime or after      *)
(* shutdown; otherwise, and in Tracker.ts flushAll, takeAll empties the    *)
(* queue and a non-empty result is dispatched as one batch.                *)
(***************************************************************************)
\* a flush() that takes no more than batchSize events, as the loop's timer branch does
FlushCallUpToBatch ==
    /\ flushPc = "idle"
    /\ IF variant = "promise" /\ (~runtime \/ isShutdown)
       THEN /\ flushRes' = "ok"
            /\ UNCHANGED <<items, putters, offerRes, flushPc, disp, quiet>>
       ELSE IF qShut
       THEN /\ flushRes' = "interrupted"
            /\ UNCHANGED <<items, putters, offerRes, flushPc, disp, quiet>>
       ELSE /\ items' = RefillItems(Drop(items, batchSize), putters, capacity)
            /\ putters' = RefillPutters(Drop(items, batchSize), putters, capacity)
            /\ offerRes' = PuttersDone(offerRes, putters, putters')
            /\ quiet' = (quiet /\ items = <<>>)
            /\ IF items = <<>>
               THEN /\ flushRes' = "ok"
                    /\ UNCHANGED <<flushPc, disp>>
               ELSE /\ flushRes' = "none"
                    /\ flushPc' = "dispatch"
                    /\ disp' = [disp EXCEPT !["flush"] = StartDispatch(Prefix(items, batchSize))]
    /\ Fixed
    /\ UNCHANGED <<qShut, tbPc, tbMin, tbMax, tbAcc, tbVal, nextId, runtime, isShutdown,
                   loopPc, shutPc, delivered, handled, trackErr, evicted>>

FlushCall ==
    /\ flushPc = "idle"
    /\ IF variant = "promise" /\ (~runtime \/ isShutdown)
       THEN /\ flushRes' = "ok"
            /\ UNCHANGED <<items, putters, offerRes, flushPc, disp, quiet>>
       ELSE IF qShut
       THEN /\ flushRes' = "interrupted"
            /\ UNCHANGED <<items, putters, offerRes, flushPc, disp, quiet>>
       ELSE /\ items' = RefillItems(<<>>, putters, capacity)
            /\ putters' = RefillPutters(<<>>, putters, capacity)
            /\ offerRes' = PuttersDone(offerRes, putters, putters')
            /\ quiet' = (quiet /\ items = <<>>)
            /\ IF items = <<>>
               THEN /\ flushRes' = "ok"
                    /\ UNCHANGED <<flushPc, disp>>
               ELSE /\ flushRes' = "none"
                    /\ flushPc' = "dispatch"
                    /\ disp' = [disp EXCEPT !["flush"] = StartDispatch(items)]
    /\ Fixed
    /\ UNCHANGED <<qShut, tbPc, tbMin, tbMax, tbAcc, tbVal, nextId, runtime, isShutdown,
                   loopPc, shutPc, delivered, handled, trackErr, evicted>>

(***************************************************************************)
(* shutdown().  Fiber.interrupt(batchFiber) ends the loop and the fibers   *)
(* of its race.  In Tracker.ts the loop's dispatch is part of the loop     *)
(* fiber and is interrupted with it, after the transports of S got the     *)
(* batch and before handleResults; in createRuntime the dispatch is a      *)
(* promise the interruption does not reach.                                *)
(***************************************************************************)
InterruptLoop(S) ==
    /\ loopPc' = IF loopPc = "none" THEN "none" ELSE "cancelled"
    /\ tbPc' = "off"
    /\ tbAcc' = <<>>
    /\ tbMin' = 0
    /\ tbMax' = 0
    /\ IF variant = "effect" /\ disp["loop"].st = "run"
       THEN /\ disp' = [disp EXCEPT !["loop"] = NoDispatch]
            /\ delivered' = Deliver(S, disp["loop"].batch)
       ELSE /\ S = {}
            /\ UNCHANGED <<disp, delivered>>

ShutdownCall(S) ==
    /\ shutPc = "idle"
    /\ ~isShutdown
    /\ ~(variant = "effect" /\ disp["loop"].st = "run" /\ Settled(disp["loop"]))
    /\ isShutdown' = (variant = "promise")
    /\ quiet' = FALSE
    /\ IF variant = "promise" /\ ~runtime
       THEN /\ shutPc' = "done"
            /\ S = {}
            /\ UNCHANGED <<loopPc, tbPc, tbAcc, tbMin, tbMax, disp, delivered>>
       ELSE /\ shutPc' = "interrupting"
            /\ InterruptLoop(S)
    /\ Fixed
    /\ UNCHANGED <<items, putters, qShut, tbVal, nextId, offerRes, runtime, flushPc,
                   flushRes, handled, trackErr, evicted>>

\* the final takeAll: a non-empty result is dispatched, an empty one ends shutdown
ShutdownTake ==
    /\ shutPc = "interrupting"
    /\ items' = RefillItems(<<>>, putters, capacity)
    /\ LET p2 == RefillPutters(<<>>, putters, capacity)
       IN  IF items = <<>>
           THEN /\ CloseShutdown
                /\ UNCHANGED disp
           ELSE /\ shutPc' = "dispatch"
                /\ disp' = [disp EXCEPT !["shutdown"] = StartDispatch(items)]
                /\ putters' = p2
                /\ offerRes' = PuttersDone(offerRes, putters, p2)
                /\ UNCHANGED <<runtime, qShut>>
    /\ Fixed
    /\ UNCHANGED <<tbPc, tbMin, tbMax, tbAcc, tbVal, nextId, isShutdown, loopPc, flushPc,
                   flushRes, delivered, handled, quiet, trackErr, evicted>>

\* Tracker.ts only: shutdownTimeout elapses, the final flush is interrupted after the
\* transports of S got the batch, and the failure is caught; the queue is shut down
ShutdownTimeout(S) ==
    /\ variant = "effect"
    /\ shutPc = "dispatch"
    /\ ~Settled(disp["shutdown"])
    /\ disp' = [disp EXCEPT !["shutdown"] = NoDispatch]
    /\ delivered' = Deliver(S, disp["shutdown"].batch)
    /\ CloseShutdown
    /\ Fixed
    /\ UNCHANGED <<items, tbPc, tbMin, tbMax, tbAcc, tbVal, nextId, isShutdown, loopPc,
                   flushPc, flushRes, handled, quiet, trackErr, evicted>>

(***************************************************************************)
(* shutdown() called again after a shutdown() that has returned.           *)
(* createTracker returns at once because isShutdown is set.  Tracker.ts    *)
(* keeps no such flag and runs shutdownTracker again: interrupting the     *)
(* ended loop does nothing, and flushAll's takeAll on the queue that is    *)
(* shut down interrupts the calling fiber, which timeout and catchAll do   *)
(* not turn into a normal return.                                          *)
(***************************************************************************)
ShutdownAgain ==
    /\ shutPc \in {"done", "interrupted"}
    /\ shutPc' = IF variant = "promise" /\ isShutdown THEN shutPc
                 ELSE IF qShut THEN "interrupted" ELSE shutPc
    /\ Fixed
    /\ UNCHANGED <<items, putters, qShut, tbPc, tbMin, tbMax, tbAcc, tbVal, nextId, offerRes,
                   runtime, isShutdown, loopPc, flushPc, flushRes, disp, delivered, handled,
                   quiet, trackErr, evicted>>

Next ==
    \/ Track
    \/ TrackAfterShutdown
    \/ TBStart
    \/ TBResume
    \/ TimerFire
    \/ \E d \in Slots : Settle(d)
    \/ FlushCall
    \/ \E S \in SUBSET Transports : ShutdownCall(S)
    \/ ShutdownTake
    \/ \E S \in SUBSET Transports : ShutdownTimeout(S)
    \/ ShutdownAgain

Spec == Init /\ [][Next]_vars

(***************************************************************************)
(* The tracker under the scheduling the runtime provides: a fiber that can *)
(* run does run (the final takeAll of shutdown()), and a timer that is set *)
(* fires (shutdownTimeout).  Nothing makes a transport's send settle.      *)
(***************************************************************************)
SpecLive ==
    /\ Init
    /\ [][Next]_vars
    /\ WF_vars(ShutdownTake)
    /\ WF_vars(\E S \in SUBSET Transports : ShutdownTimeout(S))


(***************************************************************************)
(* A second shutdown() called while the first is dispatching its final     *)
(* drain.  createTracker.shutdown finds isShutdown set and returns at      *)
(* once.  Tracker.ts keeps no flag and runs shutdownTracker again:         *)
(* Fiber.interrupt of the loop that is already interrupted returns,        *)
(* flushAll's takeAll finds the queue empty (the case taken here; events   *)
(* tracked since the first call's drain would add a dispatch of their      *)
(* own), and queue.shutdown shuts the queue down; then the call returns.   *)
(***************************************************************************)
\* a second call that runs the shutdown sequence from its start
ShutdownOverlapRestarting ==
    /\ shutPc = "dispatch"
    /\ shut2Pc = "idle"
    /\ shut2Pc' = "done"
    /\ shutPc' = "interrupting"
    /\ UNCHANGED <<variant, strategy, capacity, batchSize, retryAttempts, got, takeRes, last,
                   globalMetadata, middlewares, call, invoked, ev, resolved, applied, send>>
    /\ UNCHANGED <<items, putters, offerRes, qShut, tbPc, tbMin, tbMax, tbAcc, tbVal, nextId,
                   runtime, isShutdown, loopPc, flushPc, flushRes, disp, delivered, handled,
                   quiet, trackErr, evicted>>

ShutdownOverlap ==
    /\ shutPc = "dispatch"
    /\ shut2Pc = "idle"
    /\ shut2Pc' = "done"
    /\ IF variant = "promise"
       THEN UNCHANGED <<qShut, putters, offerRes>>
       ELSE /\ items = <<>>
            /\ qShut' = TRUE
            /\ putters' = <<>>
            /\ offerRes' = ShutPutters(offerRes, putters)
    /\ UNCHANGED <<variant, strategy, capacity, batchSize, retryAttempts, got, takeRes, last,
                   globalMetadata, middlewares, call, invoked, ev, resolved, applied, send>>
    /\ UNCHANGED <<items, tbPc, tbMin, tbMax, tbAcc, tbVal, nextId, runtime, isShutdown,
                   loopPc, flushPc, flushRes, shutPc, disp, delivered, handled, quiet,
                   trackErr, evicted>>

(***************************************************************************)
(* Resolving a caller's configuration, before any tracker is made of it.   *)
(***************************************************************************)
CInit ==
    /\ Init
    /\ variant = "promise"
    /\ strategy = "dropping"
    /\ capacity = 1
    /\ batchSize = 1

Resolve(by, config) ==
    /\ resolved' = [by     |-> by,
                    config |-> config,
                    out    |-> IF by = "resolveConfig" THEN resolveConfig(config)
                               ELSE resolve(config)]
    /\ UNCHANGED <<qvars, tvars, mvars, shut2Pc, applied, send>>

CNext == \E by \in Resolvers, config \in Callers : Resolve(by, config)

SpecConfig == CInit /\ [][CNext]_vars

(***************************************************************************)
(* One middleware unit applied to one event.  The events carry every field *)
(* of Event; their metadata has any of the keys a and b, and may have the  *)
(* key eventName that addMetadataFrom's function writes.                   *)
(***************************************************************************)
ABMetadata == UNION {[K -> 0..1] : K \in SUBSET {"a", "b"}}
Metadata == {Spread(m, n) : m \in ABMetadata, n \in {NoMetadata, [eventName |-> "old"]}}

InputEvents ==
    [some : {TRUE}, id : Events, name : Names, timestamp : {1000000},
     payload : {"data"}, metadata : Metadata]

AloneUnits == Units \cup {addMetadataFrom}

UInit == CInit

Apply(u, e) ==
    /\ applied' = [unit |-> u, input |-> e, out |-> Transform(u, e), calls |-> FnCalls(u, e)]
    /\ UNCHANGED <<qvars, tvars, mvars, shut2Pc, resolved, send>>

ApplyIdentity(e) ==
    /\ applied' = [unit |-> [kind |-> "identity", drops |-> "", md |-> NoMetadata],
                   input |-> e, out |-> identity(e), calls |-> 0]
    /\ UNCHANGED <<qvars, tvars, mvars, shut2Pc, resolved, send>>

UNext ==
    \/ \E u \in AloneUnits, e \in InputEvents : Apply(u, e)
    \/ \E e \in InputEvents : ApplyIdentity(e)

SpecUnit == UInit /\ [][UNext]_vars

OInit ==
    /\ Init
    /\ strategy = "dropping"
    /\ capacity = MaxCapacity

ONext == Next \/ ShutdownOverlap

SpecOverlap == OInit /\ [][ONext]_vars


(***************************************************************************)
(* The dispatcher send by send: the callers of dispatch (the loop, flush() *)
(* and shutdown()) hand it the next events one batch after another, and    *)
(* every send, retry and failure of every transport is a step.             *)
(***************************************************************************)
DInit ==
    /\ variant \in {"effect", "promise"}
    /\ strategy = "dropping"
    /\ capacity = MaxCapacity
    /\ batchSize = MaxBatch
    /\ retryAttempts \in 0..MaxRetry
    /\ items = <<>>
    /\ putters = <<>>
    /\ qShut = FALSE
    /\ tbPc = "start"
    /\ tbMin = 0
    /\ tbMax = 0
    /\ tbAcc = <<>>
    /\ tbVal = 0
    /\ nextId = 1
    /\ offerRes = [e \in Events |-> "none"]
    /\ got = <<>>
    /\ takeRes = "none"
    /\ runtime = TRUE
    /\ isShutdown = FALSE
    /\ loopPc = "race"
    /\ flushPc = "idle"
    /\ flushRes = "none"
    /\ shutPc = "idle"
    /\ shut2Pc = "idle"
    /\ resolved = NotResolved
    /\ applied = NotApplied
    /\ send = NotSent
    /\ disp = [d \in Slots |-> NoDispatch]
    /\ delivered = [t \in Transports |-> <<>>]
    /\ handled = NoneHandled
    /\ quiet = TRUE
    /\ trackErr = FALSE
    /\ evicted = {}
    /\ last = "init"
    /\ NoMiddleware

\* the next k events, tracked and taken out of the queue by the caller
NextBatch(k) == [i \in 1..k |-> nextId + i - 1]

NoneRunning == \A s \in Slots : disp[s].st # "run"

\* the caller of slot d dispatches the next k events
DTake(d, k) ==
    /\ nextId + k - 1 <= MaxEvents
    /\ nextId' = nextId + k
    /\ offerRes' = [e \in Events |-> IF e \in Range(NextBatch(k)) THEN "true" ELSE offerRes[e]]
    /\ disp' = [disp EXCEPT ![d] = StartDispatch(NextBatch(k))]
    /\ IF d = "loop"
       THEN /\ loopPc = "race"
            /\ NoneRunning
            /\ loopPc' = "dispatch"
            /\ tbPc' = "off"
            /\ UNCHANGED <<flushPc, flushRes, shutPc>>
       ELSE IF d = "flush"
       THEN /\ flushPc = "idle"
            /\ NoneRunning
            /\ ~qShut
            /\ ~(variant = "promise" /\ isShutdown)
            /\ flushPc' = "dispatch"
            /\ flushRes' = "none"
            /\ UNCHANGED <<loopPc, tbPc, shutPc>>
       ELSE /\ shutPc = "interrupting"
            /\ shutPc' = "dispatch"
            /\ UNCHANGED <<loopPc, tbPc, flushPc, flushRes>>
    /\ Fixed
    /\ UNCHANGED <<items, putters, qShut, tbMin, tbMax, tbAcc, tbVal, runtime, isShutdown,
                   delivered, handled, quiet, trackErr, evicted>>

DNext ==
    \/ \E d \in Slots, k \in 1..MaxBatch : DTake(d, k)
    \/ \E d \in Slots, t \in Transports : SendOk(d, t)
    \/ \E d \in Slots, t \in Transports : SendRetry(d, t)
    \/ \E d \in Slots, t \in Transports : SendFail(d, t)
    \/ \E d \in Slots : Finish(d)
    \/ ShutdownCall({})
    \/ ShutdownTake
    \/ ShutdownTimeout({})

SpecDispatch == DInit /\ [][DNext]_vars


(***************************************************************************)
(* dispatchToTransport of createRuntime on its own: transport.send inside  *)
(* Effect.tryPromise, whose catch turns what the send rejected with into   *)
(* the TransportError the retry policy looks at; Effect.retry sends again  *)
(* while the error is retryable and recurs(retryAttempts) allows; the      *)
(* error of the last attempt is what the call rejects with and what        *)
(* dispatch then hands to onError.                                         *)
(***************************************************************************)
\* a catch that wraps whatever the send rejected with
catchWrapping(t, error) ==
    [type |-> "TransportError", transport |-> t, retryable |-> TRUE, reason |-> String(error)]

\* the catch option of Effect.tryPromise
catch(t, error) ==
    IF error.type = "TransportError" THEN error
    ELSE [type |-> "TransportError", transport |-> t, retryable |-> TRUE,
          reason |-> String(error)]

Kind(err) == IF err.retryable THEN "retryable" ELSE "fatal"

SInit ==
    /\ DInit
    /\ variant = "promise"

dispatchToTransport(t) ==
    /\ send.st # "inflight"
    /\ send' = [st |-> "inflight", t |-> t, attempts |-> 1, raw |-> <<>>, err |-> <<>>,
                rejected |-> NoError]
    /\ UNCHANGED <<qvars, tvars, mvars, shut2Pc, resolved, applied>>

SendResolves ==
    /\ send.st = "inflight"
    /\ send' = [send EXCEPT !.st = "ok"]
    /\ UNCHANGED <<qvars, tvars, mvars, shut2Pc, resolved, applied>>

SendRejects(error) ==
    /\ send.st = "inflight"
    /\ LET err == catch(send.t, error)
       IN  IF RetryAgain(Kind(err), send.attempts, retryAttempts)
           THEN send' = [send EXCEPT !.attempts = send.attempts + 1,
                                     !.raw = Append(send.raw, error),
                                     !.err = Append(send.err, err)]
           ELSE send' = [send EXCEPT !.st = "failed",
                                     !.raw = Append(send.raw, error),
                                     !.err = Append(send.err, err),
                                     !.rejected = err]
    /\ UNCHANGED <<qvars, tvars, mvars, shut2Pc, resolved, applied>>

SNext ==
    \/ \E t \in Transports : dispatchToTransport(t)
    \/ SendResolves
    \/ \E error \in Rejections : SendRejects(error)

SpecSend == SInit /\ [][SNext]_vars


(***************************************************************************)
(* The tracker with static metadata and a middleware chain: track calls of *)
(* either name, trackWith calls with metadata, and flush() to dispatch     *)
(* what the middleware let into the queue, which has room for every event. *)
(***************************************************************************)
MaxChain == 2

Chains == UNION {[1..n -> Units] : n \in 0..MaxChain}

MInit ==
    /\ variant \in {"effect", "promise"}
    /\ strategy = "dropping"
    /\ capacity = MaxEvents
    /\ batchSize = MaxEvents
    /\ retryAttempts = MaxRetry
    /\ items = <<>>
    /\ putters = <<>>
    /\ qShut = FALSE
    /\ tbPc = IF variant = "effect" THEN "start" ELSE "off"
    /\ tbMin = 0
    /\ tbMax = 0
    /\ tbAcc = <<>>
    /\ tbVal = 0
    /\ nextId = 1
    /\ offerRes = [e \in Events |-> "none"]
    /\ got = <<>>
    /\ takeRes = "none"
    /\ runtime = (variant = "effect")
    /\ isShutdown = FALSE
    /\ loopPc = IF variant = "effect" THEN "race" ELSE "none"
    /\ flushPc = "idle"
    /\ flushRes = "none"
    /\ shutPc = "idle"
    /\ shut2Pc = "idle"
    /\ resolved = NotResolved
    /\ applied = NotApplied
    /\ send = NotSent
    /\ disp = [d \in Slots |-> NoDispatch]
    /\ delivered = [t \in Transports |-> <<>>]
    /\ handled = NoneHandled
    /\ quiet = TRUE
    /\ trackErr = FALSE
    /\ evicted = {}
    /\ last = "init"
    /\ globalMetadata \in StaticChoices
    /\ middlewares \in Chains
    /\ call = NoCall
    /\ invoked = <<>>
    /\ ev = [e \in Events |-> NotTracked]

MNext ==
    \/ \E name \in Names : TrackEvent("track", name, NoMetadata)
    \/ \E metadata \in CallChoices : TrackWith("page_view", metadata)
    \/ FlushCall
    \/ Settle("flush")

SpecMiddleware == MInit /\ [][MNext]_vars


(***************************************************************************)
(* Properties of the queue.                                                *)
(***************************************************************************)

\* a step in which the producer's offer of event nextId ran on an open queue
OfferStep == nextId' = nextId + 1 /\ ~qShut

\* the offered event was accepted: appended, or handed to the waiting taker
Accepted(e) == items' = Append(items, e) \/ (tbPc' = "resumed" /\ tbVal' = e /\ items' = items)

\* C2: on a dropping queue, offer on a full queue returns false and leaves the
\* queue unchanged; offer on a queue that is not full returns true and adds the event.
C2_DroppingOffer ==
    [][(strategy = "dropping" /\ OfferStep) =>
         IF Len(items) = capacity
         THEN offerRes'[nextId] = "false" /\ items' = items
         ELSE offerRes'[nextId] = "true" /\ Accepted(nextId)]_vars

\* the elements of s are consecutive ids ending with id n
EndsWith(s, n) == \A i \in 1..Len(s) : s[i] = n - (Len(s) - i)

\* C3: on a sliding queue, offer always returns true; on a full queue it evicts
\* exactly the oldest element and appends the new one, so the queue holds the most
\* recently offered events, at most capacity of them, oldest first.
C3_SlidingOffer ==
    [][(strategy = "sliding" /\ OfferStep) =>
         /\ offerRes'[nextId] = "true"
         /\ IF Len(items) = capacity
            THEN items' = Append(Tail(items), nextId) /\ evicted' = evicted \cup {Head(items)}
            ELSE Accepted(nextId) /\ evicted' = evicted
         /\ Len(items') <= capacity
         /\ EndsWith(items', nextId)]_vars

\* capacity 1: A then B were offered, both offers returned true, the queue holds only B
C3_Witness ==
    /\ strategy = "sliding"
    /\ capacity = 1
    /\ offerRes[1] = "true"
    /\ offerRes[2] = "true"
    /\ items = <<2>>
    /\ evicted = {1}
    /\ got = <<>>

\* where an offered event is while nothing has discarded it
Held ==
    Range(items) \cup Range(putters) \cup Range(got) \cup Range(tbAcc)
        \cup (IF tbPc = "resumed" THEN {tbVal} ELSE {})

Increasing(s) == \A i, j \in 1..Len(s) : i < j => s[i] < s[j]

\* C1: while the queue never overflows, every transport receives the tracked
\* events in the order they were tracked, whichever of the loop, flush() and
\* shutdown() dispatched them, and no loop batch is larger than batchSize.
C1_TrackedOrder ==
    evicted = {} =>
        /\ \A t \in Transports : Increasing(delivered[t])
        /\ disp["loop"].st = "run" => Len(disp["loop"].batch) <= batchSize

\* the batch the loop is dispatching and the events that wait behind it
LoopHeld ==
    (IF disp["loop"].st = "run" THEN disp["loop"].batch ELSE <<>>)
        \o tbAcc
        \o (IF tbPc = "resumed" THEN <<tbVal>> ELSE <<>>)
        \o items
        \o putters

\* the events that wait for the loop to dispatch them, oldest first
QueueSide ==
    tbAcc \o (IF tbPc = "resumed" THEN <<tbVal>> ELSE <<>>) \o items \o putters

\* C5: while no flush interval has elapsed (and nothing else has taken events or
\* overflowed the queue), events leave the queue only as a batch the loop starts to
\* dispatch, which holds the batchSize oldest waiting events in order; these batches
\* cover the tracked events from the first one on without a gap, and the loop is
\* never left waiting while batchSize events wait: once exactly batchSize events are
\* tracked, the loop dispatches exactly those, in order.
C5_SizeTrigger ==
    [][(quiet' /\ evicted' = {}) =>
         /\ EndsWith(LoopHeld', nextId' - 1)
         /\ (nextId' - 1 - Len(LoopHeld')) % batchSize = 0
         /\ disp'["loop"].st = "run" => Len(disp'["loop"].batch) = batchSize
         /\ (loopPc' = "race" /\ tbPc' = "wait") => Len(LoopHeld') < batchSize
         /\ Len(QueueSide') < Len(QueueSide) =>
                /\ disp["loop"].st # "run"
                /\ disp'["loop"].st = "run"
                /\ disp'["loop"].batch = SubSeq(QueueSide, 1, batchSize)
                /\ QueueSide' = Drop(QueueSide, batchSize)]_vars

\* batchSize 2: exactly two events were tracked and the loop is dispatching both
C5_Witness ==
    /\ quiet
    /\ batchSize = 2
    /\ nextId = 3
    /\ disp["loop"].st = "run"
    /\ disp["loop"].batch = <<1, 2>>
    /\ delivered = [t \in Transports |-> <<>>]

\* a step in which the flush interval elapses for the first time, before any flush()
\* or shutdown() has taken part
FirstTimer == quiet /\ ~quiet' /\ flushPc' = flushPc /\ shutPc' = shutPc

\* C6: when the flush interval elapses with fewer than batchSize events tracked (and
\* at least one), the loop dispatches one batch holding exactly the events tracked
\* so far, in order.
C6_TimerTrigger ==
    [][(FirstTimer /\ evicted = {} /\ 1 < nextId /\ nextId - 1 < batchSize) =>
         /\ disp'["loop"].st = "run"
         /\ disp'["loop"].batch = [i \in 1..(nextId - 1) |-> i]]_vars

(***************************************************************************)
(* Properties of the dispatcher.                                           *)
(***************************************************************************)

Ends(d) == disp[d].st = "run" /\ disp'[d].st # "run"

\* transport u got the batch
Received(u, batch) ==
    \E i \in 0..(Len(delivered[u]) - Len(batch)) :
        SubSeq(delivered[u], i + 1, i + Len(batch)) = batch

\* C8: when a dispatch to two transports ends with one failed non-retryably at its
\* only attempt and the other succeeded, onError is invoked exactly once, for the
\* failed transport, the other transport has received the whole batch, and the
\* dispatch, and the flush() that ran it, end in success.
C8_PartialFailure ==
    [][\A d \in Slots, t, u \in Transports :
         (/\ Ends(d)
          /\ disp[d].ts[t] = "failed"
          /\ disp[d].err[t] = "fatal"
          /\ disp[d].attempts[t] = 1
          /\ disp[d].ts[u] = "ok") =>
             /\ handled'.reported[t] = 1
             /\ handled'.reported[u] = 0
             /\ handled'.outcome = "ok"
             /\ Received(u, disp[d].batch)
             /\ ~Received(t, disp[d].batch)
             /\ d = "flush" => flushRes' = "ok"]_vars

\* the Effect tracker's flush() of event 1 ended in success with onError invoked once,
\* for transport 1, and the batch delivered to transport 2 alone
C8_Witness ==
    /\ variant = "effect"
    /\ flushRes = "ok"
    /\ flushPc = "idle"
    /\ handled.reported[1] = 1
    /\ handled.reported[2] = 0
    /\ handled.outcome = "ok"
    /\ delivered[1] = <<>>
    /\ delivered[2] = <<1>>

\* a step in which a flush() that dispatched a batch returns
FlushEnds == flushPc = "dispatch" /\ flushPc' = "idle"

\* the transports the dispatch that ends in this step reported as failed
FailedNow == {t \in Transports : handled'.reported[t] > 0}

\* C9 as stated: flush() fails exactly when every transport finally failed for the
\* flushed batch.
C9_FlushFailsIffAllFailed ==
    [][FlushEnds => (flushRes' = "fail" <=> FailedNow = Transports)]_vars

\* C9 amended: flush() of the Effect tracker fails exactly when every transport
\* finally failed for the flushed batch; flush() of createTracker succeeds whatever
\* the transports did; a flush() that finds the open queue empty succeeds without a
\* dispatch.
C9_FlushOutcome ==
    [][/\ FlushEnds =>
           /\ flushRes' \in {"ok", "fail"}
           /\ flushRes' = "fail" <=> (variant = "effect" /\ FailedNow = Transports)
       /\ (flushPc = "idle" /\ flushPc' = "idle" /\ ~qShut /\ flushRes' # flushRes) =>
             flushRes' = "ok"
       /\ (flushPc = "idle" /\ flushPc' = "dispatch") =>
             (items # <<>> /\ disp'["flush"].batch = items)]_vars

\* createTracker's flush() returned successfully although both transports failed
C9_Witness ==
    /\ variant = "promise"
    /\ flushRes = "ok"
    /\ flushPc = "idle"
    /\ handled.reported = [t \in Transports |-> 1]
    /\ handled.outcome = "ok"
    /\ delivered = [t \in Transports |-> <<>>]

NoDuplicates(s) == \A i, j \in 1..Len(s) : s[i] = s[j] => i = j

\* C11: shutdown() is idempotent: once a shutdown() has returned, every later call
\* completes without error and with no effect, so the tracker stays as the first
\* call left it, and no destination receives an event twice.
C11_ShutdownIdempotent ==
    [][/\ shutPc = "done" => shutPc' = "done"
       /\ \A t \in Transports : NoDuplicates(delivered'[t])]_vars

\* the events the queue has accepted and that the loop has not yet put into a batch
WaitingEvents ==
    Range(tbAcc) \cup (IF tbPc = "resumed" THEN {tbVal} ELSE {}) \cup Range(items)

\* C12: graceful shutdown: when shutdown() cancels the loop, wherever the loop is,
\* every accepted event that is not yet in a dispatch stays available to the final
\* flush and a dispatch the loop is in the middle of goes on; the final flush then
\* hands every waiting event to the destinations as one batch.
C12_GracefulShutdown ==
    [][/\ (shutPc = "idle" /\ shutPc' = "interrupting") =>
            /\ WaitingEvents \subseteq Range(items')
            /\ disp["loop"].st = "run" => disp'["loop"] = disp["loop"]
       /\ (shutPc = "interrupting" /\ shutPc' # shutPc) =>
            /\ items # <<>> => disp'["shutdown"].batch = items
            /\ disp'["shutdown"].st = "run" => shutPc' = "dispatch"]_vars

\* the tracker has reached Shutdown: a shutdown() call has returned
IsShutDown == shutPc \in {"done", "interrupted"}

\* a step of a track or trackWith call: it took an id or threw the usage error
TrackCall == nextId' # nextId \/ (trackErr' /\ ~trackErr)

\* C13: track or trackWith on a tracker that has reached Shutdown raises the usage
\* error to its caller, does not enqueue the event and contacts no destination.
C13_TrackAfterShutdown ==
    [][(IsShutDown /\ TrackCall) =>
         /\ trackErr'
         /\ UNCHANGED <<items, putters, tbVal, disp, delivered>>]_vars


(***************************************************************************)
(* Properties of the metadata and of the middleware chain.                 *)
(***************************************************************************)

\* a step of a track or trackWith call on a tracker that accepts calls
TrackStep == nextId' = nextId + 1

\* the positions of the addMetadata units of the chain that set key k
Adders(k) ==
    {i \in 1..Len(middlewares) :
        middlewares[i].kind = "addMetadata" /\ k \in DOMAIN middlewares[i].md}

Highest(S) == CHOOSE i \in S : \A j \in S : j <= i

\* the keys of the three layers of call c: static, per call (trackWith only), middleware
LayerKeys(c) ==
    DOMAIN globalMetadata
        \cup (IF c.op = "trackWith" THEN DOMAIN c.metadata ELSE {})
        \cup {k \in {"a", "b", "c"} : Adders(k) # {}}

\* the value of key k after the three layers of call c, the later layer winning
LayerValue(c, k) ==
    IF Adders(k) # {} THEN middlewares[Highest(Adders(k))].md[k]
    ELSE IF c.op = "trackWith" /\ k \in DOMAIN c.metadata THEN c.metadata[k]
    ELSE globalMetadata[k]

\* the events that are in a dispatch or have reached a destination
Dispatched ==
    UNION {Range(disp[d].batch) : d \in Slots} \cup UNION {Range(delivered[t]) : t \in Transports}

\* C14: an event the middleware lets through has, from the call on and so when it is
\* dispatched, the static metadata overlaid with the call's metadata (trackWith) and
\* then with the keys the middleware adds, the later layer winning: trackWith with
\* {a: 1} under static {a: 0, b: 2} and no middleware gives {a: 1, b: 2}, and track
\* gives exactly the static metadata.
C14_MetadataLayers ==
    [][/\ (TrackStep /\ ev'[nextId].st = "offered") =>
            /\ DOMAIN ev'[nextId].metadata = LayerKeys(call')
            /\ \A k \in LayerKeys(call') : ev'[nextId].metadata[k] = LayerValue(call', k)
            /\ (middlewares = <<>> /\ call'.op = "track") =>
                   ev'[nextId].metadata = globalMetadata
            /\ (middlewares = <<>> /\ call'.op = "trackWith" /\ call'.metadata = [a |-> 1]
                  /\ globalMetadata = [a |-> 0, b |-> 2]) =>
                   ev'[nextId].metadata = [a |-> 1, b |-> 2]
       /\ \A e \in Events : ev[e].st # "none" => ev'[e] = ev[e]
       /\ \A e \in Dispatched' : ev'[e].st = "offered"]_vars

\* trackWith with {a: 1} under static {a: 0, b: 2} and no middleware: the first event
\* has reached the first destination with metadata {a: 1, b: 2}
C14_Witness ==
    /\ globalMetadata = [a |-> 0, b |-> 2]
    /\ middlewares = <<>>
    /\ call = [op |-> "trackWith", name |-> "page_view", metadata |-> [a |-> 1]]
    /\ nextId = 2
    /\ ev[1].metadata = [a |-> 1, b |-> 2]
    /\ delivered[1] = <<1>>

\* the positions of the units of the chain that drop an event of name n
Droppers(n) ==
    {i \in 1..Len(middlewares) : middlewares[i].kind = "filter" /\ middlewares[i].drops = n}

Lowest(S) == CHOOSE i \in S : \A j \in S : i <= j

RECURSIVE Nested(_, _)
Nested(ms, e) ==
    IF Len(ms) = 0 THEN e
    ELSE LET inner == Nested(SubSeq(ms, 1, Len(ms) - 1), e)
         IN  IF inner.some THEN Transform(ms[Len(ms)], inner) ELSE None

\* the event the call c creates before the middleware runs
Created(c) == createEvent(c.name, IF c.op = "track" THEN NoMetadata ELSE c.metadata)

\* C16: the composed chain is the left-to-right application of its units: it yields
\* mn(...m2(m1(e))) for the created event e, invoking the units in ascending
\* position; a chain of zero units is the identity.
C16_ComposeLeftToRight ==
    [][TrackStep =>
         LET e == Created(call')
             r == Nested(middlewares, e)
         IN  /\ (ev'[nextId].st = "offered") = r.some
             /\ ev'[nextId].name = r.name
             /\ ev'[nextId].metadata = r.metadata
             /\ \A i \in 1..Len(invoked') : invoked'[i] = i
             /\ middlewares = <<>> =>
                    /\ ev'[nextId] = [st |-> "offered", name |-> e.name, metadata |-> e.metadata]
                    /\ invoked' = <<>>]_vars

\* two addMetadata units that set the same key were composed: the event carries the
\* value of the second, and the key only the second adds
C16_Witness ==
    /\ middlewares = <<addMetadata([a |-> 2]), addMetadata([a |-> 3, c |-> 1])>>
    /\ call.op = "track"
    /\ invoked = <<1, 2>>
    /\ ev[1].st = "offered"
    /\ ev[1].metadata = [a |-> 3, b |-> 2, c |-> 1]


(***************************************************************************)
(* Properties of the consumers of the queue.                               *)
(***************************************************************************)

\* the events that wait and the events that are being dispatched, place after place
AllHeld ==
    QueueSide \o disp["loop"].batch \o disp["flush"].batch \o disp["shutdown"].batch

\* C17: whatever the interleaving of the loop, flush() and shutdown(), an event is
\* held in one place only; an event enters a dispatched batch only by leaving the
\* queue in that step, and an event that has left the queue never returns to it, so
\* it is in at most one batch and no destination receives it twice; flush() on an
\* empty queue starts no dispatch.
C17_NoDuplicateConsumption ==
    /\ [](NoDuplicates(AllHeld) /\ \A t \in Transports : NoDuplicates(delivered[t]))
    /\ [][/\ \A d \in Slots :
               (disp'[d].st = "run" /\ disp[d].st # "run") =>
                   Range(disp'[d].batch) \subseteq (Range(QueueSide) \ Range(QueueSide'))
          /\ <<items, putters, tbAcc, tbVal, tbPc>>' # <<items, putters, tbAcc, tbVal, tbPc>> =>
               Range(QueueSide') \subseteq (Range(QueueSide) \cup {nextId})
          /\ (disp'["flush"].st = "run" /\ disp["flush"].st # "run") =>
               (items # <<>> /\ disp'["flush"].batch = items)]_vars

\* the loop, flush() and shutdown() each dispatch a batch of their own at one time
C17_Witness ==
    /\ disp["loop"].st = "run"
    /\ disp["flush"].st = "run"
    /\ disp["shutdown"].st = "run"
    /\ Range(disp["loop"].batch) \cup Range(disp["flush"].batch)
          \cup Range(disp["shutdown"].batch) = Events

\* C18: shutdown() always eventually completes: once called, it returns, even if a
\* send of the final dispatch never settles, and the queue is then closed.
C18_ShutdownCompletes ==
    (shutPc \in {"interrupting", "dispatch"}) ~> IsShutDown


(***************************************************************************)
(* Properties of track and of the dispatcher's fan-out.                    *)
(***************************************************************************)

\* C19: on a Running tracker, track and trackWith return to their caller at once
\* with nothing (no suspension, no error, no queue-full or drop outcome), under every
\* queue strategy and also when a bounded queue is full.
C19_FireAndForget ==
    [][(TrackStep /\ shutPc = "idle") =>
         /\ TrackOutcome(variant, offerRes'[nextId]) = "void"
         /\ ~trackErr']_vars

\* C20: within one dispatch of a non-empty batch every destination is sent the same
\* events in the same order, the batch of the dispatch, in its first attempt and
\* again in every retry, and a destination that succeeds has received that batch.
C20_FanOut ==
    [][\A d \in Slots :
         /\ disp'[d].st = "run" =>
              /\ disp'[d].batch # <<>>
              /\ \A t \in Transports :
                   /\ Len(disp'[d].sent[t]) = disp'[d].attempts[t]
                   /\ \A i \in 1..Len(disp'[d].sent[t]) : disp'[d].sent[t][i] = disp'[d].batch
         /\ \A t \in Transports :
              (disp[d].st = "run" /\ disp[d].ts[t] = "inflight" /\ disp'[d].ts[t] = "ok") =>
                  delivered'[t] = delivered[t] \o disp[d].batch]_vars

\* a flush of two events: the first destination was sent the batch, failed and was
\* sent it again, the second destination received the same batch at once
C20_Witness ==
    /\ disp["flush"].st = "run"
    /\ Len(disp["flush"].batch) = 2
    /\ disp["flush"].sent[1] = <<disp["flush"].batch, disp["flush"].batch>>
    /\ disp["flush"].ts[2] = "ok"
    /\ delivered[2] = disp["flush"].batch


(***************************************************************************)
(* Properties of flush().                                                  *)
(***************************************************************************)

\* the step in which flush() takes the queued events and starts to dispatch them
FlushStarts == disp["flush"].st # "run" /\ disp'["flush"].st = "run"

\* C21: flush() removes everything queued at the moment it runs and dispatches it as
\* one batch in queue order, whatever batchSize is; what is in the queue afterwards
\* was not queued before, and an event tracked while the batch is dispatched does not
\* join the batch but is queued (unless the queue is full and drops it, or is already shut down).
C21_FlushTakesAll ==
    [][/\ FlushStarts =>
            /\ disp'["flush"].batch = items
            /\ Range(items') \cap Range(items) = {}
            /\ Range(items') \subseteq Range(putters)
       /\ (disp["flush"].st = "run" /\ disp'["flush"].st = "run") =>
            disp'["flush"].batch = disp["flush"].batch
       /\ (disp["flush"].st = "run" /\ TrackStep /\ ~qShut /\ nextId \notin evicted') =>
            nextId \in Range(QueueSide')]_vars

\* with batchSize 1, flush() dispatches the two events that were queued as one batch,
\* and the event tracked afterwards waits in the queue
C21_Witness ==
    /\ batchSize = 1
    /\ disp["flush"].st = "run"
    /\ disp["flush"].batch = <<1, 2>>
    /\ items = <<3>>

\* C22: flush() has no timeout of its own: it returns only when every transport has
\* settled for the flushed batch, in success or in a failure that is final (not
\* retryable, or retryable with 1 + retryAttempts attempts made); while a send or a
\* retry of the batch is pending, flush() has not returned.
C22_FlushWaitsForAll ==
    /\ [](flushPc = "dispatch" => (disp["flush"].st = "run" /\ flushRes = "none"))
    /\ [][(Ends("flush") \/ FlushEnds) =>
            /\ Ends("flush") /\ FlushEnds
            /\ flushRes' \in {"ok", "fail"}
            /\ \A t \in Transports :
                 /\ disp["flush"].ts[t] \in {"ok", "failed"}
                 /\ disp["flush"].ts[t] = "ok" => Received(t, disp["flush"].batch)
                 /\ (disp["flush"].ts[t] = "failed" /\ disp["flush"].err[t] = "retryable") =>
                        disp["flush"].attempts[t] = 1 + retryAttempts]_vars

\* retryAttempts 1: flush() has returned after transport 1 took the batch at its first
\* attempt and transport 2 failed for good, which onError reported
C22_Witness ==
    /\ retryAttempts = 1
    /\ flushPc = "idle"
    /\ flushRes = "ok"
    /\ disp["flush"].st # "run"
    /\ delivered[1] # <<>>
    /\ delivered[2] = <<>>
    /\ handled.reported = <<0, 1>>


(***************************************************************************)
(* Properties of the shut-down queue.                                      *)
(***************************************************************************)

\* C23: once the queue is shut down, every offer returns false, whatever the
\* strategy, and adds nothing to the queue; a second shutdown changes nothing.
C23_OfferAfterShutdown ==
    [][/\ (qShut /\ nextId' = nextId + 1) =>
            /\ offerRes'[nextId] = "false"
            /\ items' = items
            /\ putters' = putters
       /\ (qShut /\ last' = "shutdown" /\ nextId' = nextId) =>
            <<items, putters, offerRes, tbPc, tbAcc, got>>' =
                <<items, putters, offerRes, tbPc, tbAcc, got>>]_vars


(***************************************************************************)
(* Properties of the event ids.                                            *)
(***************************************************************************)

\* C24: every track or trackWith call on a running tracker draws exactly one fresh
\* id from the generator and gives it to the event of that call, dispatched or
\* dropped by the middleware; with a counter generator the k-th call's event has the
\* k-th id, so the events wait and are dispatched with ids ascending in call order,
\* and no id is on two events.
C24_FreshIds ==
    /\ [](/\ Increasing(disp["flush"].batch \o items)
          /\ \A t \in Transports : Increasing(delivered[t])
          /\ \A e \in Events : ev[e].st # "none" <=> e < nextId)
    /\ [][TrackStep =>
            /\ ev[nextId].st = "none"
            /\ ev'[nextId].st \in {"offered", "dropped"}
            /\ ev'[nextId].st = "offered" =>
                  ev'[nextId].name = call'.name /\ items' = Append(items, nextId)
            /\ ev'[nextId].st = "dropped" => items' = items
            /\ \A e \in Events \ {nextId} : ev'[e] = ev[e]]_vars

\* three calls, the second dropped by the middleware: the first destination has the
\* first and the third event, with the first and the third id
C24_Witness ==
    /\ nextId = 4
    /\ ev[1].st = "offered"
    /\ ev[2].st = "dropped"
    /\ ev[3].st = "offered"
    /\ delivered[1] = <<1, 3>>


(***************************************************************************)
(* Properties of the batch loop.                                           *)
(***************************************************************************)

\* C25: abandoning the losing side of the loop's race loses nothing: while the loop
\* is in its race and no shutdown() interferes, an event that waits for the loop (in
\* the queue, in a suspended offer, or taken by the takeBetween side) either still
\* waits after the step or is in a batch being dispatched, unless the full queue
\* evicted it.
C25_RaceLosesNothing ==
    [][(loopPc = "race" /\ shutPc = "idle" /\ shutPc' = "idle") =>
         \A e \in Range(QueueSide) :
            \/ e \in Range(QueueSide')
            \/ \E d \in Slots : disp'[d].st = "run" /\ e \in Range(disp'[d].batch)
            \/ e \in evicted']_vars

\* C26: a failure of the destinations never ends the loop: when a loop dispatch
\* ends, with whatever failures, and no shutdown() has cancelled the loop, the loop
\* starts its next iteration; the loop leaves its cycle of race and dispatch only
\* by being cancelled in a step of shutdown().
C26_LoopSurvivesFailure ==
    [][/\ (Ends("loop") /\ loopPc = "dispatch" /\ shutPc' = shutPc) =>
            /\ loopPc' = "race"
            /\ tbPc' = "start"
       /\ (loopPc \in {"race", "dispatch"} /\ loopPc' \notin {"race", "dispatch"}) =>
            /\ loopPc' = "cancelled"
            /\ shutPc = "idle"
            /\ shutPc' # "idle"]_vars

\* the loop of the Effect tracker dispatches the second event after its dispatch of
\* the first failed at every destination; no flush() or shutdown() has run
C26_Witness ==
    /\ variant = "effect"
    /\ handled.outcome = "fail"
    /\ handled.reported = [t \in Transports |-> 1]
    /\ flushPc = "idle"
    /\ flushRes = "none"
    /\ shutPc = "idle"
    /\ loopPc = "dispatch"
    /\ disp["loop"].st = "run"
    /\ disp["loop"].batch = <<2>>
    /\ delivered = [t \in Transports |-> <<>>]


(***************************************************************************)
(* Properties of the batches the destinations see.                         *)
(***************************************************************************)

\* nothing waits for a consumer: the queue is empty and no taker or suspended offer
\* holds an event
NothingQueued == QueueSide = <<>>

\* C27: no destination is sent an empty batch: a running dispatch has a batch that is
\* not empty, and so has every send of it; a step taken with nothing queued (a race
\* that yields nothing, flush() or shutdown() on an empty queue) starts no dispatch;
\* no destination is contacted and onError is not invoked unless a dispatch with a
\* non-empty batch is running; and a loop iteration that ends without a dispatch is
\* followed by the next iteration.
C27_NoEmptyBatch ==
    /\ [](\A d \in Slots :
            disp[d].st = "run" =>
              /\ disp[d].batch # <<>>
              /\ \A t \in Transports : \A i \in 1..Len(disp[d].sent[t]) :
                     disp[d].sent[t][i] # <<>>)
    /\ [][/\ NothingQueued => \A d \in Slots : (disp'[d].st = "run" => disp[d].st = "run")
          /\ (delivered' # delivered \/ handled' # handled) =>
               \E d \in Slots : disp[d].st = "run" /\ disp[d].batch # <<>>
          /\ (loopPc = "race" /\ disp'["loop"].st # "run" /\ shutPc' = shutPc) =>
               loopPc' = "race"]_vars

\* the Effect tracker's flush() and then shutdown() ran on the empty queue: both
\* returned, no destination was contacted and onError was not invoked
C27_Witness ==
    /\ variant = "effect"
    /\ nextId = 1
    /\ flushRes = "ok"
    /\ shutPc = "done"
    /\ qShut
    /\ delivered = [t \in Transports |-> <<>>]
    /\ handled.outcome = "none"

\* what the dispatch of slot d holds for transport t
Lane(d, t) == <<disp[d].ts[t], disp[d].attempts[t], disp[d].sent[t], disp[d].err[t]>>

\* C28: the destinations of one dispatch are independent: a step in which one
\* transport fails, is retried or succeeds changes nothing of another transport's
\* send, attempts or outcome; a dispatch with a transport still in flight does not
\* end because another transport failed (only shutdown() of the Effect tracker ends
\* it early, and then no result is computed); and the result of a dispatch is
\* computed in the step that ends it with every transport settled.
C28_TransportsIndependent ==
    [][/\ disp' # disp =>
            \A d \in Slots :
               /\ (disp[d].st = "run" /\ disp'[d].st = "run" /\ disp'[d] # disp[d]) =>
                    \A t, u \in Transports :
                       (t # u /\ Lane(d, t)' # Lane(d, t)) => Lane(d, u)' = Lane(d, u)
               /\ (Ends(d) /\ ~Settled(disp[d])) =>
                    /\ variant = "effect"
                    /\ d # "flush"
                    /\ shutPc' # shutPc
                    /\ handled' = handled
       /\ handled' # handled => \E d \in Slots : Ends(d) /\ Settled(disp[d])]_vars

\* retryAttempts 1: transport 1 failed for good at its first attempt, and transport 2
\* was sent the batch a second time and took it
C28_Witness ==
    /\ retryAttempts = 1
    /\ \E d \in Slots :
         /\ disp[d].st = "run"
         /\ disp[d].ts[1] = "failed"
         /\ disp[d].err[1] = "fatal"
         /\ disp[d].attempts[1] = 1
         /\ disp[d].ts[2] = "ok"
         /\ disp[d].attempts[2] = 2
         /\ Len(disp[d].sent[2]) = 2
         /\ Received(2, disp[d].batch)
         /\ ~Received(1, disp[d].batch)


(***************************************************************************)
(* Properties of the tracker once shutdown() has run.                      *)
(***************************************************************************)

\* C29: nothing stays suspended past shutdown: once the queue is shut down or the
\* tracker's shutdown() has returned, no offer is suspended on the full bounded
\* queue and the loop's takeBetween does not wait; an offer that shutdown wakes
\* returns false.
C29_NoSuspensionPastShutdown ==
    [][/\ (qShut' \/ shutPc' \in {"done", "interrupted"}) =>
            /\ putters' = <<>>
            /\ \A e \in Events : offerRes'[e] # "pending"
            /\ tbPc' # "wait"
       /\ \A e \in Events :
            (offerRes[e] = "pending" /\ offerRes'[e] \notin {"pending", "true"}) =>
                offerRes'[e] = "false"]_vars

\* C30: when shutdown() of a tracker that has a queue returns, the queue is shut
\* down, and no offer made afterwards succeeds or adds an event; the queue is shut
\* down only by shutdown(), after the loop was cancelled and the final drain was
\* attempted.
C30_QueueClosedAfterShutdown ==
    [][/\ (shutPc # "done" /\ shutPc' = "done" /\ (variant = "effect" \/ runtime)) => qShut'
       /\ (IsShutDown /\ TrackStep) =>
            /\ offerRes'[nextId] # "true"
            /\ QueueSide' = QueueSide
       /\ (~qShut /\ qShut') =>
            /\ shutPc \in {"interrupting", "dispatch"}
            /\ shutPc' = "done"
            /\ loopPc' = "cancelled"
            /\ tbPc' = "off"]_vars


(***************************************************************************)
(* Properties of the tracker's lifecycle.                                  *)
(***************************************************************************)

\* the batch loop is alive: in its race or waiting for its dispatch
LoopAlive == loopPc \in {"race", "dispatch"}

\* C31: from its activation (construction of the Effect tracker, first track call of
\* createTracker) to its shutdown a tracker has exactly one batch loop alive: before
\* activation there is none, while the tracker runs the loop is alive, a loop starts
\* only in the first track call, which creates the runtime, and the loop never
\* starts again once it was cancelled, so none starts after shutdown.
C31_OneLoop ==
    /\ [](/\ (shutPc = "idle" /\ runtime) => LoopAlive
          /\ (shutPc = "idle" /\ ~runtime) => (variant = "promise" /\ loopPc = "none")
          /\ shutPc # "idle" => ~LoopAlive)
    /\ [][/\ (LoopAlive' /\ ~LoopAlive) =>
               /\ variant = "promise"
               /\ loopPc = "none"
               /\ ~runtime /\ runtime'
               /\ ~isShutdown
               /\ TrackStep
          /\ (TrackStep /\ runtime) => (loopPc' = loopPc /\ runtime')
          /\ loopPc = "cancelled" => loopPc' = "cancelled"]_vars

\* createTracker after three track calls: the runtime exists and its one loop, started
\* by the first call, is dispatching the first event
C31_Witness ==
    /\ variant = "promise"
    /\ nextId = 4
    /\ runtime
    /\ loopPc = "dispatch"
    /\ disp["loop"].batch = <<1>>
    /\ shutPc = "idle"

\* the lifecycle state: 0 Created, 1 Running, 2 ShuttingDown, 3 Shutdown
Phase ==
    IF shutPc \in {"done", "interrupted"} THEN 3
    ELSE IF shutPc \in {"interrupting", "dispatch"} THEN 2
    ELSE IF runtime THEN 1 ELSE 0

AtLeastOne(v) == v.kind = "num" /\ v.n >= 1

\* C33: whatever the caller supplies, the resolved configuration has batchSize >= 1
\* and queueCapacity >= 1: an override of 0, a negative one or an explicit undefined
\* is not what the tracker is built with.
C33_ResolvedAtLeastOne ==
    resolved.by # "none" =>
        /\ AtLeastOne(resolved.out.batchSize)
        /\ AtLeastOne(resolved.out.queueCapacity)


(***************************************************************************)
(* Properties of the middleware units.                                     *)
(***************************************************************************)

\* the unit applied is of kind k
AppliedKind(k) == applied.unit.kind = k

\* the metadata the applied unit adds to its input
Added ==
    IF applied.unit.kind = "addMetadata" THEN applied.unit.md ELSE eventName(applied.input)

\* C34: addMetadata(m) and addMetadataFrom(f) never drop the event; the metadata of
\* the result has the keys of the input and of m (or f(event)), a key of m with m's
\* value and any other key with the input's value; id, name, timestamp and payload
\* are those of the input.
C34_AddMetadata ==
    (AppliedKind("addMetadata") \/ AppliedKind("addMetadataFrom")) =>
        /\ applied.out.some
        /\ DOMAIN applied.out.metadata = DOMAIN applied.input.metadata \cup DOMAIN Added
        /\ \A k \in DOMAIN applied.out.metadata :
             applied.out.metadata[k] =
                 IF k \in DOMAIN Added THEN Added[k] ELSE applied.input.metadata[k]
        /\ applied.out.id = applied.input.id
        /\ applied.out.name = applied.input.name
        /\ applied.out.timestamp = applied.input.timestamp
        /\ applied.out.payload = applied.input.payload

\* addMetadata({a: 3, c: 1}) on an event with metadata {a: 0, b: 1}: a is overridden,
\* b is preserved, c is added
C34_Witness ==
    /\ AppliedKind("addMetadata")
    /\ applied.unit.md = [a |-> 3, c |-> 1]
    /\ applied.input.metadata = [a |-> 0, b |-> 1]
    /\ applied.out.metadata = [a |-> 3, b |-> 1, c |-> 1]

\* C35: tap(fn) calls fn once and passes the event on as it is; identity passes the
\* event on as it is; filter(p) passes the event on as it is when p holds and drops
\* it when p does not, and never hands on an altered event.
C35_PassThrough ==
    /\ AppliedKind("tap") => (applied.out = applied.input /\ applied.calls = 1)
    /\ AppliedKind("identity") => applied.out = applied.input
    /\ AppliedKind("filter") =>
         /\ applied.out \in {applied.input, None}
         /\ applied.out = applied.input <=> applied.input.name # applied.unit.drops
         /\ applied.calls = 1

\* tap was applied to an event that carries metadata: one call of fn, the same event
C35_Witness ==
    /\ AppliedKind("tap")
    /\ applied.calls = 1
    /\ applied.input.metadata = [a |-> 1, b |-> 0, eventName |-> "old"]
    /\ applied.out = applied.input


(***************************************************************************)
(* Properties of the queue's size and of the loop's dispatches.            *)
(***************************************************************************)

\* C36: the queue never holds more than queueCapacity events, whatever the
\* strategy and however track, the loop's takes, flush and shutdown interleave.
C36_QueueWithinCapacity == Len(items) \in 0..capacity

\* a full queue that has been offered one more event: under back-pressure the offer
\* is suspended, under the other strategies an event was lost
C36_Witness ==
    /\ Len(items) = capacity
    /\ nextId > capacity + 1
    /\ (putters # <<>> \/ evicted # {})


\* C37: while a dispatch started by the loop is in flight the loop takes nothing: it
\* waits in that dispatch, or it has been cancelled; and the loop starts a dispatch
\* only out of a race, when its previous dispatch has ended, so that its batches
\* reach every destination in the order they were taken.
C37_OneLoopDispatch ==
    /\ [](disp["loop"].st = "run" => (loopPc \in {"dispatch", "cancelled"} /\ tbPc = "off"))
    /\ [][(disp'["loop"] # disp["loop"] /\ disp'["loop"].st = "run") =>
            /\ disp["loop"].st = "idle"
            /\ loopPc = "race"
            /\ loopPc' = "dispatch"]_vars

\* a flush() dispatch in flight together with a dispatch the loop waits for
C37_Witness ==
    /\ disp["loop"].st = "run"
    /\ loopPc = "dispatch"
    /\ disp["flush"].st = "run"


\* C38: once shutdown() has returned, no dispatch of the loop or of the shutdown
\* drain has a send in flight or still to start: the dispatch the loop had started
\* when shutdown() cancelled it has ended as well.
C38_NoSendAfterShutdown ==
    shutPc \in {"done", "interrupted"} =>
        \A d \in {"loop", "shutdown"} : disp[d].st # "run"


\* C39: a shutdown() called while an earlier call is still draining returns only
\* after the final dispatch has settled: no call has returned while the events
\* drained by the first call are still being delivered.
C39_OverlapWaitsForDrain ==
    shut2Pc = "done" => (shutPc # "dispatch" /\ disp["shutdown"].st # "run")


(***************************************************************************)
(* Properties of dispatchToTransport.                                      *)
(***************************************************************************)

\* the send that was in flight has just been rejected
Rejected == send.st = "inflight" /\ send'.st # "ok" /\ send' # send

====
